----------------------------- MODULE Settings ------------------------------
(* What a save makes of the configuration in memory: the save jobs of the    *)
(* web page (idf_web.cpp, handle_modern_save), each of which works from a    *)
(* copy taken before it gets the update lock, and the saves of               *)
(* idf_config.cpp that they and the device's own tasks end in.  How a        *)
(* configuration reaches the flash is the subject of ConfigStore.            *)
(*                                                                           *)
(* A password or key is the network or channel type it was given for.        *)
EXTENDS Naturals, FiniteSets

CONSTANTS Tasks,        \* who saves: jobs, the connection watch, the scheduler
          Ssids, Types, \* networks, and types of push channels
          MaxNets,      \* IDF_MAX_WIFI_NETWORKS = 5
          MaxSaves      \* bound: saves begun

\* There is a type of channel, and nobody who saves is called as the free lock is.
SettingsAssumption ==
    Types # {} /\ "none" \notin Tasks /\ MaxNets \in Nat \ {0} /\ MaxSaves \in Nat

VARIABLES
    cfg,        \* s_config
    lock,       \* who holds s_persist_mutex
    task,       \* each task: its save, the copy it read, what it stores
    backup,     \* an encrypted backup of an earlier configuration
    count,      \* saves begun
    acked       \* history: the last values that saves were told to be stored

vars == <<cfg, lock, task, backup, count, acked>>

Slots == 0 .. MaxNets - 1
Accounts == {0, 1}              \* IDF_MAX_WEB_ACCOUNTS
Channels == {0, 1}              \* IDF_MAX_PUSH_CHANNELS = 5
Plain == {"email", "hostname"}  \* families that are one value each
Markers == {"keepalive"}         \* kaLastTime; schedTasks[].lastRun is stored alike

NoNet == [ssid |-> "none", pass |-> "open"]
Networks == [ssid : Ssids, pass : Ssids \cup {"open"}] \cup {NoNet}

Configs == [nets : [Slots -> Networks],
            acc  : [Accounts -> [user : BOOLEAN, pass : BOOLEAN]],
            chan : [Channels -> [type : Types, key : Types \cup {"none"}]],
            plain : [Plain -> 0 .. MaxSaves], mark : [Markers -> 0 .. MaxSaves]]

Defaults ==
    [nets |-> [i \in Slots |-> NoNet],
     acc  |-> [a \in Accounts |-> [user |-> a = 0, pass |-> a = 0]],
     chan |-> [c \in Channels |-> [type |-> CHOOSE t \in Types : TRUE, key |-> "none"]],
     plain |-> [f \in Plain |-> 0], mark |-> [m \in Markers |-> 0]]

Rest == [at |-> "idle"]

TypeOK ==
    /\ cfg \in Configs /\ backup \in Configs
    /\ lock \in Tasks \cup {"none"} /\ count \in 0 .. MaxSaves
    /\ \A t \in Tasks : task[t].at \in {"idle", "read", "store"}
    /\ acked \in [plain : [Plain -> 0 .. MaxSaves], mark : [Markers -> 0 .. MaxSaves],
                  acc : [Accounts -> [user : BOOLEAN, pass : BOOLEAN]]]

Own(c) == [plain |-> c.plain, mark |-> c.mark, acc |-> c.acc]

Init ==
    /\ cfg = Defaults /\ lock = "none" /\ count = 0 /\ backup = Defaults
    /\ task = [t \in Tasks |-> Rest] /\ acked = Own(Defaults)

-----------------------------------------------------------------------------
(* The forms                                                                *)

\* One slot of the network list; the password may be blank, or the network open.
WifiForms == [fam : {"wifi"}, i : Slots, ssid : Ssids \cup {"none"},
              how : {"given", "blank", "open"}]
\* One channel of the push list; a blank key stays.
PushForms == [fam : {"push"}, i : Channels, type : Types, key : BOOLEAN]
\* The accounts: a name left alone, set or cleared, and a password or a blank.
AccountForms == [fam : {"accounts"}, user : [Accounts -> {"alone", "set", "clear"}],
                 pass : [Accounts -> BOOLEAN]]
Others == [fam : {"plain"}, i : Plain] \cup [fam : {"marker"}, i : Markers]
            \cup [fam : {"remember"}, ssid : Ssids, open : BOOLEAN]
            \cup [fam : {"restore", "reset"}]
Forms == WifiForms \cup PushForms \cup AccountForms \cup Others

\* A password field left blank keeps the one that the slot had on the page.
Retains(form, seen) ==
    /\ form.how = "blank" /\ form.ssid = seen.nets[form.i].ssid
    /\ seen.nets[form.i].pass # "open"

\* The network that the device has just connected to.
Net(form) == [ssid |-> form.ssid, pass |-> IF form.open THEN "open" ELSE form.ssid]

\* What handle_modern_save and idf_config_note_wifi_connected refuse or have no
\* need to do, by the copy they read.
Wanted(form, seen) ==
    CASE form.fam = "wifi" -> form.ssid = "none" \/ form.how # "blank" \/ Retains(form, seen)
      [] form.fam = "remember" -> seen.nets[0] # Net(form)
      [] OTHER -> TRUE

Read(t, form) ==
    /\ task[t].at = "idle" /\ count < MaxSaves /\ Wanted(form, cfg)
    /\ task' = [task EXCEPT ![t] = [at |-> "read", form |-> form, seen |-> cfg, id |-> count + 1]]
    /\ count' = count + 1
    /\ UNCHANGED <<cfg, lock, backup, acked>>

-----------------------------------------------------------------------------
(* What a save makes of the configuration                                   *)

\* The slot still holds the network whose password is to stay.
Holds(form, base) ==
    base.nets[form.i].ssid = form.ssid /\ base.nets[form.i].pass # "open"

\* idf_config_save_wifi_profile for its slot.
Slot(form, base) ==
    IF form.ssid = "none" THEN NoNet
    ELSE [ssid |-> form.ssid,
          pass |-> CASE form.how = "open" -> "open"
                     [] form.how = "given" -> form.ssid
                     [] form.how = "blank" -> base.nets[form.i].pass]

\* The last slot goes, even for a network that has one.
FirstByDropping(nets, net) == [i \in Slots |-> IF i = 0 THEN net ELSE nets[i - 1]]

\* idf_config_save_wifi: the network comes first, the others move up to its slot,
\* or to the last one.
From(nets, net) ==
    LET same == {i \in Slots : nets[i].ssid = net.ssid}
    IN  IF same = {} THEN MaxNets - 1 ELSE CHOOSE i \in same : \A j \in same : i <= j
First(nets, net) ==
    [i \in Slots |-> IF i = 0 THEN net ELSE IF i <= From(nets, net) THEN nets[i - 1] ELSE nets[i]]

\* Another type takes over nothing of the old one but what is not a secret.
ChannelKeeping(form, old) ==
    [type |-> form.type, key |-> IF form.key THEN form.type ELSE old.key]
Channel(form, old) ==
    [type |-> form.type,
     key |-> IF form.key THEN form.type ELSE IF form.type = old.type THEN old.key ELSE "none"]

\* The push form carries the other channels along as the copy has them.
WithChannel(form, seen, base) ==
    [base EXCEPT !.chan = [seen.chan EXCEPT ![form.i] = Channel(form, @)]]

AccountOf(form, seen, base, a) ==
    LET user == CASE form.user[a] = "alone" -> seen.acc[a].user
                  [] form.user[a] = "set" -> TRUE [] OTHER -> FALSE
    IN  [user |-> user, pass |-> user /\ (form.pass[a] \/ base.acc[a].pass)]

Usable(acc) == \E a \in Accounts : acc[a].user /\ acc[a].pass
NewAccounts(form, seen, base) == [a \in Accounts |-> AccountOf(form, seen, base, a)]

\* A backup that brings its accounts along.
RestoredWhole(base) == [backup EXCEPT !.mark = base.mark]
\* idf_config_storage_decode_portable: who may log in, the device's name and
\* the markers of the scheduler stay those of this device.
Restored(base) ==
    [base EXCEPT !.nets = backup.nets, !.chan = backup.chan, !.plain["email"] = backup.plain["email"]]

Made(form, seen, base, id) ==
    CASE form.fam = "wifi" -> [base EXCEPT !.nets[form.i] = Slot(form, base)]
      [] form.fam = "remember" -> [base EXCEPT !.nets = First(@, Net(form))]
      [] form.fam = "push" -> WithChannel(form, seen, base)
      [] form.fam = "accounts" -> [base EXCEPT !.acc = NewAccounts(form, seen, base)]
      [] form.fam = "plain" -> [base EXCEPT !.plain[form.i] = id]
      [] form.fam = "marker" -> [base EXCEPT !.mark[form.i] = id]
      [] form.fam = "restore" -> Restored(base)
      [] form.fam = "reset" -> Defaults

\* cancel_config_update: another network has the slot, or nobody could log in.
RefusedUnseen(form, seen, base) == FALSE
Refused(form, seen, base) ==
    \/ form.fam = "wifi" /\ form.ssid # "none" /\ form.how = "blank" /\ ~Holds(form, base)
    \/ form.fam = "accounts" /\ ~Usable(NewAccounts(form, seen, base))

-----------------------------------------------------------------------------
(* The update lock                                                          *)

Drop(t) == task' = [task EXCEPT ![t] = Rest] /\ UNCHANGED lock
Keep(t, next) ==
    /\ lock' = t
    /\ task' = [task EXCEPT ![t] = [at |-> "store", form |-> @.form, next |-> next]]

\* The copy of the page taken for the current configuration.
BeginOnCopy(t) ==
    /\ task[t].at = "read" /\ lock = "none"
    /\ LET form == task[t].form  seen == task[t].seen
       IN  IF Refused(form, seen, seen) THEN Drop(t) ELSE Keep(t, Made(form, seen, seen, task[t].id))
    /\ UNCHANGED <<cfg, backup, count, acked>>

\* begin_config_update, and the caller's changes to the candidate.
Begin(t) ==
    /\ task[t].at = "read" /\ lock = "none"
    /\ LET form == task[t].form  seen == task[t].seen
       IN  IF Refused(form, seen, cfg) THEN Drop(t) ELSE Keep(t, Made(form, seen, cfg, task[t].id))
    /\ UNCHANGED <<cfg, backup, count, acked>>

\* What a save that succeeds has told its caller.
Ack(form, next) ==
    CASE form.fam = "plain" -> [acked EXCEPT !.plain[form.i] = next.plain[form.i]]
      [] form.fam = "marker" -> [acked EXCEPT !.mark[form.i] = next.mark[form.i]]
      [] form.fam = "accounts" -> [acked EXCEPT !.acc = next.acc]
      [] form.fam = "restore" -> [acked EXCEPT !.plain["email"] = next.plain["email"]]
      [] form.fam = "reset" -> Own(next)
      [] OTHER -> acked

\* finish_config_update: stored and published, or not stored and dropped.
Finish(t) ==
    /\ task[t].at = "store" /\ lock' = "none"
    /\ task' = [task EXCEPT ![t] = Rest]
    /\ \/ cfg' = task[t].next /\ acked' = Ack(task[t].form, task[t].next)
       \/ UNCHANGED <<cfg, acked>>
    /\ UNCHANGED <<backup, count>>

\* idf_config_export_portable.
Export ==
    /\ backup # cfg /\ backup' = cfg
    /\ UNCHANGED <<cfg, lock, task, count, acked>>

Next ==
    \/ \E t \in Tasks :
         \/ \E form \in Forms : Read(t, form)
         \/ Begin(t) \/ Finish(t)
    \/ Export

Spec == Init /\ [][Next]_vars

-----------------------------------------------------------------------------
(* Properties                                                               *)

OwnSecrets(c) ==
    /\ \A i \in Slots : c.nets[i].pass \in {c.nets[i].ssid, "open"}
    /\ \A h \in Channels : c.chan[h].key \in {c.chan[h].type, "none"}

\* A stored password or key is used for nothing but the network or the type of
\* channel that it was given for, whatever moved in the list meanwhile.
SecretsStay == OwnSecrets(cfg)

\* No sequence of saves, restores and resets locks everyone out.
NotLockedOut == Usable(cfg.acc)

\* A save that was told to be stored is undone by no save of something else.
LastWins == Own(cfg) = acked

\* Connecting to a network that is saved reorders the list and forgets none; a
\* new one takes the place of the last slot alone.
Remembered(t) ==
    task[t].at = "store" /\ task[t].form.fam = "remember" /\ cfg' = task[t].next /\ lock' # lock
    => LET kept == {i \in Slots : \E j \in Slots : cfg'.nets[j].ssid = cfg.nets[i].ssid}
           known == \E i \in Slots : cfg.nets[i].ssid = task[t].form.ssid
       IN  kept = Slots \/ (~known /\ Slots \ kept = {MaxNets - 1})
RememberKeeps == [][\A t \in Tasks : Remembered(t)]_vars

-----------------------------------------------------------------------------
(* The inductive invariant                                                  *)

\* What a page may have read, what a backup may hold and what may be stored.
Sound(c) == c \in Configs /\ OwnSecrets(c)

\* A form that was read goes with a sound copy, however old.  A save at work has
\* the lock to itself: what it stores keeps the accounts usable, differs from what
\* is acknowledged only in what it will acknowledge itself, and was made of the
\* configuration that is still in memory.
Reading(w) ==
    /\ w \in [at : {"read"}, form : Forms, seen : Configs, id : 1 .. MaxSaves]
    /\ OwnSecrets(w.seen)
Storing(t, w) ==
    /\ w \in [at : {"store"}, form : Forms, next : Configs]
    /\ lock = t /\ OwnSecrets(w.next) /\ Usable(w.next.acc)
    /\ Own(w.next) = Ack(w.form, w.next)
    /\ w.form.fam = "remember" => w.next.nets = First(cfg.nets, Net(w.form))

IInv ==
    /\ TypeOK /\ NotLockedOut /\ LastWins
    /\ Sound(cfg) /\ Sound(backup)
    /\ DOMAIN task = Tasks
    /\ \A t \in Tasks : task[t] = Rest \/ Reading(task[t]) \/ Storing(t, task[t])
=============================================================================
