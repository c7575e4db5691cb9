-------------------------- MODULE EsimSwitchProofs --------------------------
(***************************************************************************)
(* Which profile jobs and users act on: the properties of EsimSwitch,      *)
(* proved for any profiles, any number of lists and operations, and any    *)
(* interval of days.                                                       *)
(***************************************************************************)
EXTENDS EsimSwitch, TLAPS, FiniteSetTheorems

-----------------------------------------------------------------------------
(* The inductive invariant.                                                *)

\* Which steps a job of the scheduler takes and which one of the user's.
Web == job.kind = "web"
Places ==
    /\ Cellular => /\ job.op = "none" /\ job.target \in Profiles
                   /\ job.step \in {"prepare", "enable", "busy", "wait", "again", "act",
                                    "restore", "record"}
    /\ Web => /\ job.step \in {"prepare", "enable", "busy", "act", "webwait", "webend"}
              /\ ~job.undo
              /\ job.step # "webend" => job.target \in Profiles
    /\ job.kind = "none" => job = NoJob

\* Once a switch is confirmed, or was not needed, the card is on the target; and
\* the modem runs on what the card enables whenever it answers.
OnTarget == Cellular /\ job.step \in {"wait", "again", "act"} => enabled = job.target
Follows == modem # "down" /\ ~lost => live = enabled

\* The way back.  A job that nothing went wrong for, and whose original profile
\* the card names, knows that profile from its list on, is on it until it
\* switches, and once it has undone its switch.
Sound == Cellular /\ ~job.trouble /\ job.began \in iccids
Early == job.step \in {"prepare", "enable", "busy"} /\ ~job.undo
WayBack ==
    Sound =>
        /\ job.switched => job.original = job.began
        /\ ~job.switched => enabled = job.began /\ ~job.undo
        /\ Early => ~job.switched
        /\ job.step \in {"enable", "busy", "wait", "again", "act"} => job.original = job.began
        /\ job.step \in {"wait", "again"} => job.switched
        /\ job.undo => /\ job.target = job.began
                       /\ job.step \in {"wait", "again", "record"} => enabled = job.began
        /\ job.step = "record" /\ job.back => enabled = job.began
        /\ job.undo => job.step \in {"enable", "busy", "wait", "again", "record"}

\* A handle of the current list stands for the profile it was shown with.
Handled ==
    \A s \in shown :
        /\ s[1][1] \in 1 .. cache.gen
        /\ s[1][1] = cache.gen /\ s[1][2] \in DOMAIN cache.list => cache.list[s[1][2]] = s[2]

\* The day of a recorded failure is not a day to start.
Rests ==
    /\ failed \in 0 .. day \cup {MaxDay + 1}
    /\ failed = day => ~KeepaliveDue(kaLast, day)

IInv ==
    /\ TypeOK /\ Places /\ OnTarget /\ Follows /\ WayBack /\ Handled /\ ActsOnShown
    /\ Rests

-----------------------------------------------------------------------------
(* Every action keeps the invariant.                                       *)

\* A sequence of the profiles on the card exists, so the card's list is one.
LEMMA ListedType ==
    ASSUME EsimAssumption, installed \subseteq Profiles
    PROVE  /\ Listed \in Seq(Profiles)
           /\ Len(Listed) \in 0 .. Cardinality(Profiles)
<1>1. IsFiniteSet(installed) /\ Cardinality(installed) <= Cardinality(Profiles)
  BY FS_Subset DEF EsimAssumption
<1>2. Cardinality(installed) \in Nat /\ ExistsBijection(1 .. Cardinality(installed), installed)
  BY <1>1, FS_CardinalityType
<1>3. PICK f \in [1 .. Cardinality(installed) -> installed] : IsInjective(f)
  BY <1>2 DEF ExistsBijection, Bijection, Injection, IsInjective
<1>4. Listed \in [1 .. Cardinality(installed) -> installed]
  BY <1>3 DEF Listed, SetToSeq
<1>5. Cardinality(Profiles) \in Nat
  BY FS_CardinalityType DEF EsimAssumption
<1> QED BY <1>1, <1>2, <1>4, <1>5

\* What an action writes into the record of the job keeps its type.
LEMMA EndTyped ==
    ASSUME NEW j \in Jobs, NEW s \in Steps, NEW ok \in BOOLEAN, NEW bad \in BOOLEAN
    PROVE  /\ [j EXCEPT !.step = s, !.ok = ok] \in Jobs
           /\ [j EXCEPT !.step = s, !.ok = ok, !.trouble = bad] \in Jobs
  BY DEF Jobs

LEMMA FailsTyped == ASSUME job \in Jobs PROVE Fails \in Jobs
<1>1. Unable \in Steps
  BY DEF Unable, Steps
<1>2. (job.ok /\ job.undo) \in BOOLEAN /\ Cellular \in BOOLEAN
  BY DEF Cellular
<1> HIDE DEF Unable, Cellular
<1> QED BY <1>1, <1>2, EndTyped DEF Fails

LEMMA ListFailsKeeps == ASSUME EsimAssumption, IInv, ListFails PROVE IInv'
<1>1. TypeOK'
  BY DEF EsimAssumption, IInv, TypeOK, ListFails, Goto, At, Cellular, cardVars, webVars, dayVars, Jobs, Steps, Operations, NoJob
<1>2. Places'
  BY DEF EsimAssumption, IInv, TypeOK, ListFails, Goto, At, Cellular, cardVars, webVars, dayVars, Jobs, Steps, Operations, Places, Web, NoJob
<1>3. OnTarget' /\ Follows'
  BY DEF EsimAssumption, IInv, TypeOK, ListFails, Goto, At, Cellular, cardVars, webVars, dayVars, Jobs, Steps, Operations, Places, Web, OnTarget, Follows, NoJob
<1>4. WayBack'
  BY DEF EsimAssumption, IInv, TypeOK, ListFails, Goto, At, Cellular, cardVars, webVars, dayVars, Jobs, Steps, Operations, Places, Web, OnTarget, WayBack, Sound, Early, NoJob
<1>5. Handled' /\ ActsOnShown'
  BY DEF IInv, TypeOK, ListFails, Goto, At, Cellular, cardVars, webVars, dayVars, Jobs, Steps, Operations, Places, Web, Handled, ActsOnShown, NoJob
<1>6. Rests'
  BY DEF EsimAssumption, IInv, TypeOK, ListFails, Goto, At, Cellular, cardVars, webVars, dayVars, Rests, KeepaliveDue
<1> QED BY <1>1, <1>2, <1>3, <1>4, <1>5, <1>6 DEF IInv

LEMMA PrepareKeeps == ASSUME EsimAssumption, IInv, Prepare PROVE IInv'
<1>1. TypeOK'
  <2>1. job \in Jobs
    BY DEF IInv, TypeOK
  <2>2. job' \in Jobs
    <3> DEFINE original == IF enabled \in iccids THEN enabled ELSE None
               step == IF enabled = job.target THEN "act" ELSE "enable"
    <3>1. original \in Profiles \cup {None} /\ step \in Steps
      BY DEF IInv, TypeOK, Steps
    <3>2. job' = [job EXCEPT !.original = original, !.step = step]
      BY DEF Prepare
    <3> HIDE DEF original, step
    <3> QED BY <2>1, <3>1, <3>2 DEF Jobs
  <2> QED BY <2>2 DEF EsimAssumption, IInv, TypeOK, Prepare, At, Cellular, cardVars, webVars, dayVars
<1>2. Places'
  BY DEF EsimAssumption, IInv, TypeOK, Prepare, At, Cellular, cardVars, webVars, dayVars, Jobs, Steps, Operations, Places, Web, NoJob
<1>3. OnTarget' /\ Follows'
  BY DEF EsimAssumption, IInv, TypeOK, Prepare, At, Cellular, cardVars, webVars, dayVars, Jobs, Steps, Operations, Places, Web, OnTarget, Follows, NoJob
<1>4. WayBack'
  BY DEF EsimAssumption, IInv, TypeOK, Prepare, At, Cellular, cardVars, webVars, dayVars, Jobs, Steps, Operations, Places, Web, OnTarget, WayBack, Sound, Early, NoJob
<1>5. Handled' /\ ActsOnShown'
  BY DEF IInv, TypeOK, Prepare, At, Cellular, cardVars, webVars, dayVars, Jobs, Steps, Operations, Places, Web, Handled, ActsOnShown, NoJob
<1>6. Rests'
  BY DEF EsimAssumption, IInv, TypeOK, Prepare, At, Cellular, cardVars, webVars, dayVars, Rests, KeepaliveDue
<1> QED BY <1>1, <1>2, <1>3, <1>4, <1>5, <1>6 DEF IInv

LEMMA EnableConfirmedKeeps == ASSUME EsimAssumption, IInv, EnableConfirmed PROVE IInv'
<1>1. TypeOK'
  <2>1. job \in Jobs
    BY DEF IInv, TypeOK
  <2>2. job' \in Jobs
    BY ZenonT(60), <2>1 DEF EnableConfirmed, At, Confirmed, Wish, Possible, Reset, Cellular, Jobs, Steps
  <2> QED BY <2>2 DEF EsimAssumption, IInv, TypeOK, EnableConfirmed, At, Confirmed, Wish, Possible, Reset, Cellular, cardVars, webVars, dayVars
<1>2. Places'
  BY DEF EsimAssumption, IInv, TypeOK, EnableConfirmed, At, Confirmed, Wish, Possible, Reset, Cellular, cardVars, webVars, dayVars, Jobs, Steps, Operations, Places, Web, NoJob
<1>3. OnTarget' /\ Follows'
  BY DEF EsimAssumption, IInv, TypeOK, EnableConfirmed, At, Confirmed, Wish, Possible, Reset, Cellular, cardVars, webVars, dayVars, Jobs, Steps, Operations, Places, Web, OnTarget, Follows, NoJob
<1>4. WayBack'
  BY DEF EsimAssumption, IInv, TypeOK, EnableConfirmed, At, Confirmed, Wish, Possible, Reset, Cellular, cardVars, webVars, dayVars, Jobs, Steps, Operations, Places, Web, OnTarget, WayBack, Sound, Early, NoJob
<1>5. Handled' /\ ActsOnShown'
  BY DEF IInv, TypeOK, EnableConfirmed, At, Confirmed, Wish, Possible, Reset, Cellular, cardVars, webVars, dayVars, Jobs, Steps, Operations, Places, Web, Handled, ActsOnShown, NoJob
<1>6. Rests'
  BY DEF EsimAssumption, IInv, TypeOK, EnableConfirmed, At, Confirmed, Wish, Possible, Reset, Cellular, cardVars, webVars, dayVars, Rests, KeepaliveDue
<1> QED BY <1>1, <1>2, <1>3, <1>4, <1>5, <1>6 DEF IInv

LEMMA EnableRefusedKeeps == ASSUME EsimAssumption, IInv, EnableRefused PROVE IInv'
<1>1. TypeOK'
  <2>1. job \in Jobs
    BY DEF IInv, TypeOK
  <2>2. job' \in Jobs
    BY <2>1, FailsTyped DEF EnableRefused
  <2> QED BY <2>2 DEF EsimAssumption, IInv, TypeOK, EnableRefused, At, Fails, Unable, Cellular, cardVars, webVars, dayVars
<1>2. Places'
  BY DEF EsimAssumption, IInv, TypeOK, EnableRefused, At, Fails, Unable, Cellular, cardVars, webVars, dayVars, Jobs, Steps, Operations, Places, Web, NoJob
<1>3. OnTarget' /\ Follows'
  BY DEF EsimAssumption, IInv, TypeOK, EnableRefused, At, Fails, Unable, Cellular, cardVars, webVars, dayVars, Jobs, Steps, Operations, Places, Web, OnTarget, Follows, NoJob
<1>4. WayBack'
  BY DEF EsimAssumption, IInv, TypeOK, EnableRefused, At, Fails, Unable, Cellular, cardVars, webVars, dayVars, Jobs, Steps, Operations, Places, Web, OnTarget, WayBack, Sound, Early, NoJob
<1>5. Handled' /\ ActsOnShown'
  BY DEF IInv, TypeOK, EnableRefused, At, Fails, Unable, Cellular, cardVars, webVars, dayVars, Jobs, Steps, Operations, Places, Web, Handled, ActsOnShown, NoJob
<1>6. Rests'
  BY DEF EsimAssumption, IInv, TypeOK, EnableRefused, At, Fails, Unable, Cellular, cardVars, webVars, dayVars, Rests, KeepaliveDue
<1> QED BY <1>1, <1>2, <1>3, <1>4, <1>5, <1>6 DEF IInv

LEMMA EnableLostKeeps == ASSUME EsimAssumption, IInv, EnableLost PROVE IInv'
<1>1. TypeOK'
  <2>1. job \in Jobs
    BY DEF IInv, TypeOK
  <2>2. job' \in Jobs
    BY <2>1, FailsTyped DEF EnableLost
  <2> QED BY <2>2 DEF EsimAssumption, IInv, TypeOK, EnableLost, At, Fails, Unable, Wish, Possible, Cellular, cardVars, webVars, dayVars
<1>2. Places'
  BY DEF EsimAssumption, IInv, TypeOK, EnableLost, At, Fails, Unable, Wish, Possible, Cellular, cardVars, webVars, dayVars, Jobs, Steps, Operations, Places, Web, NoJob
<1>3. OnTarget' /\ Follows'
  BY DEF EsimAssumption, IInv, TypeOK, EnableLost, At, Fails, Unable, Wish, Possible, Cellular, cardVars, webVars, dayVars, Jobs, Steps, Operations, Places, Web, OnTarget, Follows, NoJob
<1>4. WayBack'
  BY DEF EsimAssumption, IInv, TypeOK, EnableLost, At, Fails, Unable, Wish, Possible, Cellular, cardVars, webVars, dayVars, Jobs, Steps, Operations, Places, Web, OnTarget, WayBack, Sound, Early, NoJob
<1>5. Handled' /\ ActsOnShown'
  BY DEF IInv, TypeOK, EnableLost, At, Fails, Unable, Wish, Possible, Cellular, cardVars, webVars, dayVars, Jobs, Steps, Operations, Places, Web, Handled, ActsOnShown, NoJob
<1>6. Rests'
  BY DEF EsimAssumption, IInv, TypeOK, EnableLost, At, Fails, Unable, Wish, Possible, Cellular, cardVars, webVars, dayVars, Rests, KeepaliveDue
<1> QED BY <1>1, <1>2, <1>3, <1>4, <1>5, <1>6 DEF IInv

LEMMA EnableBusyKeeps == ASSUME EsimAssumption, IInv, EnableBusy PROVE IInv'
<1>1. TypeOK'
  BY DEF EsimAssumption, IInv, TypeOK, EnableBusy, At, Goto, Reset, cardVars, webVars, dayVars, Jobs, Steps, Operations, NoJob
<1>2. Places'
  BY DEF EsimAssumption, IInv, TypeOK, EnableBusy, At, Goto, Reset, cardVars, webVars, dayVars, Jobs, Steps, Operations, Places, Web, NoJob, Cellular
<1>3. OnTarget' /\ Follows'
  BY DEF EsimAssumption, IInv, TypeOK, EnableBusy, At, Goto, Reset, cardVars, webVars, dayVars, Jobs, Steps, Operations, Places, Web, OnTarget, Follows, NoJob, Cellular
<1>4. WayBack'
  BY DEF EsimAssumption, IInv, TypeOK, EnableBusy, At, Goto, Reset, cardVars, webVars, dayVars, Jobs, Steps, Operations, Places, Web, OnTarget, WayBack, Sound, Early, NoJob, Cellular
<1>5. Handled' /\ ActsOnShown'
  BY DEF IInv, TypeOK, EnableBusy, At, Goto, Reset, cardVars, webVars, dayVars, Jobs, Steps, Operations, Places, Web, Handled, ActsOnShown, NoJob, Cellular
<1>6. Rests'
  BY DEF EsimAssumption, IInv, TypeOK, EnableBusy, At, Goto, Reset, cardVars, webVars, dayVars, Rests, KeepaliveDue
<1> QED BY <1>1, <1>2, <1>3, <1>4, <1>5, <1>6 DEF IInv

LEMMA RetryKeeps == ASSUME EsimAssumption, IInv, Retry PROVE IInv'
<1>1. TypeOK'
  BY DEF EsimAssumption, IInv, TypeOK, Retry, At, cardVars, webVars, dayVars, Jobs, Steps, Operations, NoJob
<1>2. Places'
  BY DEF EsimAssumption, IInv, TypeOK, Retry, At, cardVars, webVars, dayVars, Jobs, Steps, Operations, Places, Web, NoJob, Cellular
<1>3. OnTarget' /\ Follows'
  BY DEF EsimAssumption, IInv, TypeOK, Retry, At, cardVars, webVars, dayVars, Jobs, Steps, Operations, Places, Web, OnTarget, Follows, NoJob, Cellular
<1>4. WayBack'
  BY DEF EsimAssumption, IInv, TypeOK, Retry, At, cardVars, webVars, dayVars, Jobs, Steps, Operations, Places, Web, OnTarget, WayBack, Sound, Early, NoJob, Cellular
<1>5. Handled' /\ ActsOnShown'
  BY DEF IInv, TypeOK, Retry, At, cardVars, webVars, dayVars, Jobs, Steps, Operations, Places, Web, Handled, ActsOnShown, NoJob, Cellular
<1>6. Rests'
  BY DEF EsimAssumption, IInv, TypeOK, Retry, At, cardVars, webVars, dayVars, Rests, KeepaliveDue
<1> QED BY <1>1, <1>2, <1>3, <1>4, <1>5, <1>6 DEF IInv

LEMMA RetryTooLateKeeps == ASSUME EsimAssumption, IInv, RetryTooLate PROVE IInv'
<1>1. TypeOK'
  <2>1. job \in Jobs
    BY DEF IInv, TypeOK
  <2>2. job' \in Jobs
    BY <2>1, FailsTyped DEF RetryTooLate
  <2> QED BY <2>2 DEF EsimAssumption, IInv, TypeOK, RetryTooLate, At, Fails, Unable, Cellular, cardVars, webVars, dayVars
<1>2. Places'
  BY DEF EsimAssumption, IInv, TypeOK, RetryTooLate, At, Fails, Unable, Cellular, cardVars, webVars, dayVars, Jobs, Steps, Operations, Places, Web, NoJob
<1>3. OnTarget' /\ Follows'
  BY DEF EsimAssumption, IInv, TypeOK, RetryTooLate, At, Fails, Unable, Cellular, cardVars, webVars, dayVars, Jobs, Steps, Operations, Places, Web, OnTarget, Follows, NoJob
<1>4. WayBack'
  BY DEF EsimAssumption, IInv, TypeOK, RetryTooLate, At, Fails, Unable, Cellular, cardVars, webVars, dayVars, Jobs, Steps, Operations, Places, Web, OnTarget, WayBack, Sound, Early, NoJob
<1>5. Handled' /\ ActsOnShown'
  BY DEF IInv, TypeOK, RetryTooLate, At, Fails, Unable, Cellular, cardVars, webVars, dayVars, Jobs, Steps, Operations, Places, Web, Handled, ActsOnShown, NoJob
<1>6. Rests'
  BY DEF EsimAssumption, IInv, TypeOK, RetryTooLate, At, Fails, Unable, Cellular, cardVars, webVars, dayVars, Rests, KeepaliveDue
<1> QED BY <1>1, <1>2, <1>3, <1>4, <1>5, <1>6 DEF IInv

LEMMA RegisteredKeeps == ASSUME EsimAssumption, IInv, Registered PROVE IInv'
<1>1. TypeOK'
  BY SMTT(60) DEF EsimAssumption, IInv, TypeOK, Registered, Goto, cardVars, webVars, dayVars, Jobs, Steps, Operations, NoJob
<1>2. Places'
  BY DEF EsimAssumption, IInv, TypeOK, Registered, Goto, cardVars, webVars, dayVars, Jobs, Steps, Operations, Places, Web, NoJob, Cellular
<1>3. OnTarget' /\ Follows'
  BY DEF EsimAssumption, IInv, TypeOK, Registered, Goto, cardVars, webVars, dayVars, Jobs, Steps, Operations, Places, Web, OnTarget, Follows, NoJob, Cellular
<1>4. WayBack'
  BY DEF EsimAssumption, IInv, TypeOK, Registered, Goto, cardVars, webVars, dayVars, Jobs, Steps, Operations, Places, Web, OnTarget, WayBack, Sound, Early, NoJob, Cellular
<1>5. Handled' /\ ActsOnShown'
  BY DEF IInv, TypeOK, Registered, Goto, cardVars, webVars, dayVars, Jobs, Steps, Operations, Places, Web, Handled, ActsOnShown, NoJob, Cellular
<1>6. Rests'
  BY DEF EsimAssumption, IInv, TypeOK, Registered, Goto, cardVars, webVars, dayVars, Rests, KeepaliveDue
<1> QED BY <1>1, <1>2, <1>3, <1>4, <1>5, <1>6 DEF IInv

LEMMA WaitAgainKeeps == ASSUME EsimAssumption, IInv, WaitAgain PROVE IInv'
<1>1. TypeOK'
  BY DEF EsimAssumption, IInv, TypeOK, WaitAgain, At, Goto, Reset, cardVars, webVars, dayVars, Jobs, Steps, Operations, NoJob
<1>2. Places'
  BY DEF EsimAssumption, IInv, TypeOK, WaitAgain, At, Goto, Reset, cardVars, webVars, dayVars, Jobs, Steps, Operations, Places, Web, NoJob, Cellular
<1>3. OnTarget' /\ Follows'
  BY DEF EsimAssumption, IInv, TypeOK, WaitAgain, At, Goto, Reset, cardVars, webVars, dayVars, Jobs, Steps, Operations, Places, Web, OnTarget, Follows, NoJob, Cellular
<1>4. WayBack'
  BY DEF EsimAssumption, IInv, TypeOK, WaitAgain, At, Goto, Reset, cardVars, webVars, dayVars, Jobs, Steps, Operations, Places, Web, OnTarget, WayBack, Sound, Early, NoJob, Cellular
<1>5. Handled' /\ ActsOnShown'
  BY DEF IInv, TypeOK, WaitAgain, At, Goto, Reset, cardVars, webVars, dayVars, Jobs, Steps, Operations, Places, Web, Handled, ActsOnShown, NoJob, Cellular
<1>6. Rests'
  BY DEF EsimAssumption, IInv, TypeOK, WaitAgain, At, Goto, Reset, cardVars, webVars, dayVars, Rests, KeepaliveDue
<1> QED BY <1>1, <1>2, <1>3, <1>4, <1>5, <1>6 DEF IInv

LEMMA UnregisteredKeeps == ASSUME EsimAssumption, IInv, Unregistered PROVE IInv'
<1>1. TypeOK'
  <2>1. job \in Jobs
    BY DEF IInv, TypeOK
  <2>2. job' \in Jobs
    BY <2>1 DEF Unregistered, At, Goto, Jobs, Steps
  <2> QED BY <2>2 DEF EsimAssumption, IInv, TypeOK, Unregistered, At, Goto, cardVars, webVars, dayVars
<1>2. Places'
  BY DEF EsimAssumption, IInv, TypeOK, Unregistered, At, Goto, cardVars, webVars, dayVars, Jobs, Steps, Operations, Places, Web, NoJob, Cellular
<1>3. OnTarget' /\ Follows'
  BY DEF EsimAssumption, IInv, TypeOK, Unregistered, At, Goto, cardVars, webVars, dayVars, Jobs, Steps, Operations, Places, Web, OnTarget, Follows, NoJob, Cellular
<1>4. WayBack'
  BY DEF EsimAssumption, IInv, TypeOK, Unregistered, At, Goto, cardVars, webVars, dayVars, Jobs, Steps, Operations, Places, Web, OnTarget, WayBack, Sound, Early, NoJob, Cellular
<1>5. Handled' /\ ActsOnShown'
  BY DEF IInv, TypeOK, Unregistered, At, Goto, cardVars, webVars, dayVars, Jobs, Steps, Operations, Places, Web, Handled, ActsOnShown, NoJob, Cellular
<1>6. Rests'
  BY DEF EsimAssumption, IInv, TypeOK, Unregistered, At, Goto, cardVars, webVars, dayVars, Rests, KeepaliveDue
<1> QED BY <1>1, <1>2, <1>3, <1>4, <1>5, <1>6 DEF IInv

LEMMA ActKeeps == ASSUME EsimAssumption, IInv, Cellular, Act PROVE IInv'
<1>1. TypeOK'
  <2>1. job \in Jobs
    BY DEF IInv, TypeOK
  <2>2. job' \in Jobs
    BY <2>1 DEF Act, At, Jobs, Steps
  <2> QED BY <2>2 DEF EsimAssumption, IInv, TypeOK, Act, At, cardVars, webVars, dayVars
<1>2. Places'
  BY DEF EsimAssumption, IInv, TypeOK, Act, At, cardVars, webVars, dayVars, Jobs, Steps, Operations, Places, Web, NoJob, Cellular
<1>3. OnTarget' /\ Follows'
  BY DEF EsimAssumption, IInv, TypeOK, Act, At, cardVars, webVars, dayVars, Jobs, Steps, Operations, Places, Web, OnTarget, Follows, NoJob, Cellular
<1>4. WayBack'
  BY DEF EsimAssumption, IInv, TypeOK, Act, At, cardVars, webVars, dayVars, Jobs, Steps, Operations, Places, Web, OnTarget, WayBack, Sound, Early, NoJob, Cellular
<1>5. Handled' /\ ActsOnShown'
  BY DEF IInv, TypeOK, Act, At, cardVars, webVars, dayVars, Jobs, Steps, Operations, Places, Web, Handled, ActsOnShown, NoJob, Cellular
<1>6. Rests'
  BY DEF EsimAssumption, IInv, TypeOK, Act, At, cardVars, webVars, dayVars, Rests, KeepaliveDue
<1> QED BY <1>1, <1>2, <1>3, <1>4, <1>5, <1>6 DEF IInv

LEMMA RestoreKeeps == ASSUME EsimAssumption, IInv, Restore PROVE IInv'
<1>1. TypeOK'
  <2>1. job \in Jobs
    BY DEF IInv, TypeOK
  <2>2. job' \in Jobs
    BY ZenonT(60), <2>1 DEF Restore, At, Jobs, Steps
  <2> QED BY <2>2 DEF EsimAssumption, IInv, TypeOK, Restore, At, cardVars, webVars, dayVars
<1>2. Places'
  BY DEF EsimAssumption, IInv, TypeOK, Restore, At, cardVars, webVars, dayVars, Jobs, Steps, Operations, Places, Web, NoJob, Cellular
<1>3. OnTarget' /\ Follows'
  BY DEF EsimAssumption, IInv, TypeOK, Restore, At, cardVars, webVars, dayVars, Jobs, Steps, Operations, Places, Web, OnTarget, Follows, NoJob, Cellular
<1>4. WayBack'
  BY DEF EsimAssumption, IInv, TypeOK, Restore, At, cardVars, webVars, dayVars, Jobs, Steps, Operations, Places, Web, OnTarget, WayBack, Sound, Early, NoJob, Cellular
<1>5. Handled' /\ ActsOnShown'
  BY DEF IInv, TypeOK, Restore, At, cardVars, webVars, dayVars, Jobs, Steps, Operations, Places, Web, Handled, ActsOnShown, NoJob, Cellular
<1>6. Rests'
  BY DEF EsimAssumption, IInv, TypeOK, Restore, At, cardVars, webVars, dayVars, Rests, KeepaliveDue
<1> QED BY <1>1, <1>2, <1>3, <1>4, <1>5, <1>6 DEF IInv

LEMMA RecordKeeps == ASSUME EsimAssumption, IInv, Record PROVE IInv'
<1>1. TypeOK'
  BY DEF EsimAssumption, IInv, TypeOK, Record, At, Baseline, cardVars, webVars, dayVars, Jobs, Steps, Operations, NoJob
<1>2. Places'
  BY DEF EsimAssumption, IInv, TypeOK, Record, At, Baseline, cardVars, webVars, dayVars, Jobs, Steps, Operations, Places, Web, NoJob, Cellular
<1>3. OnTarget' /\ Follows'
  BY DEF EsimAssumption, IInv, TypeOK, Record, At, Baseline, cardVars, webVars, dayVars, Jobs, Steps, Operations, Places, Web, OnTarget, Follows, NoJob, Cellular
<1>4. WayBack'
  BY DEF EsimAssumption, IInv, TypeOK, Record, At, Baseline, cardVars, webVars, dayVars, Jobs, Steps, Operations, Places, Web, OnTarget, WayBack, Sound, Early, NoJob, Cellular
<1>5. Handled' /\ ActsOnShown'
  BY DEF IInv, TypeOK, Record, At, Baseline, cardVars, webVars, dayVars, Jobs, Steps, Operations, Places, Web, Handled, ActsOnShown, NoJob, Cellular
<1>6. Rests'
  BY DEF EsimAssumption, IInv, TypeOK, Record, At, Baseline, cardVars, webVars, dayVars, Rests, KeepaliveDue
<1> QED BY <1>1, <1>2, <1>3, <1>4, <1>5, <1>6 DEF IInv

LEMMA RereadKeeps == ASSUME EsimAssumption, IInv, Reread PROVE IInv'
<1>1. TypeOK'
  <2>1. job \in Jobs
    BY DEF IInv, TypeOK
  <2>2. job' \in Jobs
    <3> DEFINE ok == job.op = "switch" /\ enabled = job.target
               step == IF job.target \notin installed THEN "webend"
                       ELSE IF job.op \in {"delete", "nickname"} THEN "act"
                       ELSE IF job.op = "switch" /\ enabled = job.target THEN "webwait"
                       ELSE "enable"
    <3>1. step \in Steps /\ ok \in BOOLEAN
      BY DEF Steps
    <3>2. job' = [job EXCEPT !.step = step, !.ok = ok]
      BY DEF Reread
    <3> HIDE DEF ok, step
    <3> QED BY <2>1, <3>1, <3>2, EndTyped
  <2> QED BY <2>2 DEF EsimAssumption, IInv, TypeOK, Reread, At, cardVars, webVars, dayVars
<1>2. Places'
  BY DEF EsimAssumption, IInv, TypeOK, Reread, At, cardVars, webVars, dayVars, Jobs, Steps, Operations, Places, Web, NoJob, Cellular
<1>3. OnTarget' /\ Follows'
  BY DEF EsimAssumption, IInv, TypeOK, Reread, At, cardVars, webVars, dayVars, Jobs, Steps, Operations, Places, Web, OnTarget, Follows, NoJob, Cellular
<1>4. WayBack'
  BY DEF EsimAssumption, IInv, TypeOK, Reread, At, cardVars, webVars, dayVars, Jobs, Steps, Operations, Places, Web, OnTarget, WayBack, Sound, Early, NoJob, Cellular
<1>5. Handled' /\ ActsOnShown'
  BY DEF IInv, TypeOK, Reread, At, cardVars, webVars, dayVars, Jobs, Steps, Operations, Places, Web, Handled, ActsOnShown, NoJob, Cellular
<1>6. Rests'
  BY DEF EsimAssumption, IInv, TypeOK, Reread, At, cardVars, webVars, dayVars, Rests, KeepaliveDue
<1> QED BY <1>1, <1>2, <1>3, <1>4, <1>5, <1>6 DEF IInv

LEMMA RereadFailsKeeps == ASSUME EsimAssumption, IInv, RereadFails PROVE IInv'
<1>1. TypeOK'
  BY DEF EsimAssumption, IInv, TypeOK, RereadFails, At, Goto, cardVars, webVars, dayVars, Jobs, Steps, Operations, NoJob
<1>2. Places'
  BY DEF EsimAssumption, IInv, TypeOK, RereadFails, At, Goto, cardVars, webVars, dayVars, Jobs, Steps, Operations, Places, Web, NoJob, Cellular
<1>3. OnTarget' /\ Follows'
  BY DEF EsimAssumption, IInv, TypeOK, RereadFails, At, Goto, cardVars, webVars, dayVars, Jobs, Steps, Operations, Places, Web, OnTarget, Follows, NoJob, Cellular
<1>4. WayBack'
  BY DEF EsimAssumption, IInv, TypeOK, RereadFails, At, Goto, cardVars, webVars, dayVars, Jobs, Steps, Operations, Places, Web, OnTarget, WayBack, Sound, Early, NoJob, Cellular
<1>5. Handled' /\ ActsOnShown'
  BY DEF IInv, TypeOK, RereadFails, At, Goto, cardVars, webVars, dayVars, Jobs, Steps, Operations, Places, Web, Handled, ActsOnShown, NoJob, Cellular
<1>6. Rests'
  BY DEF EsimAssumption, IInv, TypeOK, RereadFails, At, Goto, cardVars, webVars, dayVars, Rests, KeepaliveDue
<1> QED BY <1>1, <1>2, <1>3, <1>4, <1>5, <1>6 DEF IInv

LEMMA BootsKeeps == ASSUME EsimAssumption, IInv, Boots PROVE IInv'
<1>1. TypeOK'
  <2>1. live' \in Profiles \cup {None}
    BY DEF IInv, TypeOK, Boots
  <2> QED BY <2>1 DEF IInv, TypeOK, Boots, webVars, dayVars
<1>2. Places'
  BY DEF EsimAssumption, IInv, TypeOK, Boots, cardVars, webVars, dayVars, Jobs, Steps, Operations, Places, Web, NoJob, Cellular
<1>3. OnTarget' /\ Follows'
  BY DEF EsimAssumption, IInv, TypeOK, Boots, cardVars, webVars, dayVars, Jobs, Steps, Operations, Places, Web, OnTarget, Follows, NoJob, Cellular
<1>4. WayBack'
  BY DEF EsimAssumption, IInv, TypeOK, Boots, cardVars, webVars, dayVars, Jobs, Steps, Operations, Places, Web, OnTarget, WayBack, Sound, Early, NoJob, Cellular
<1>5. Handled' /\ ActsOnShown'
  BY DEF IInv, TypeOK, Boots, cardVars, webVars, dayVars, Jobs, Steps, Operations, Places, Web, Handled, ActsOnShown, NoJob, Cellular
<1>6. Rests'
  BY DEF EsimAssumption, IInv, TypeOK, Boots, cardVars, webVars, dayVars, Rests, KeepaliveDue
<1> QED BY <1>1, <1>2, <1>3, <1>4, <1>5, <1>6 DEF IInv

LEMMA RegistersKeeps == ASSUME EsimAssumption, IInv, Registers PROVE IInv'
<1>1. TypeOK'
  BY DEF EsimAssumption, IInv, TypeOK, Registers, cardVars, webVars, dayVars, Jobs, Steps, Operations, NoJob
<1>2. Places'
  BY DEF EsimAssumption, IInv, TypeOK, Registers, cardVars, webVars, dayVars, Jobs, Steps, Operations, Places, Web, NoJob, Cellular
<1>3. OnTarget' /\ Follows'
  BY DEF EsimAssumption, IInv, TypeOK, Registers, cardVars, webVars, dayVars, Jobs, Steps, Operations, Places, Web, OnTarget, Follows, NoJob, Cellular
<1>4. WayBack'
  BY DEF EsimAssumption, IInv, TypeOK, Registers, cardVars, webVars, dayVars, Jobs, Steps, Operations, Places, Web, OnTarget, WayBack, Sound, Early, NoJob, Cellular
<1>5. Handled' /\ ActsOnShown'
  BY DEF IInv, TypeOK, Registers, cardVars, webVars, dayVars, Jobs, Steps, Operations, Places, Web, Handled, ActsOnShown, NoJob, Cellular
<1>6. Rests'
  BY DEF EsimAssumption, IInv, TypeOK, Registers, cardVars, webVars, dayVars, Rests, KeepaliveDue
<1> QED BY <1>1, <1>2, <1>3, <1>4, <1>5, <1>6 DEF IInv

LEMMA MidnightKeeps == ASSUME EsimAssumption, IInv, Midnight PROVE IInv'
<1>1. TypeOK'
  BY DEF EsimAssumption, IInv, TypeOK, Midnight, cardVars, webVars, dayVars, Jobs, Steps, Operations, NoJob
<1>2. Places'
  BY DEF EsimAssumption, IInv, TypeOK, Midnight, cardVars, webVars, dayVars, Jobs, Steps, Operations, Places, Web, NoJob, Cellular
<1>3. OnTarget' /\ Follows'
  BY DEF EsimAssumption, IInv, TypeOK, Midnight, cardVars, webVars, dayVars, Jobs, Steps, Operations, Places, Web, OnTarget, Follows, NoJob, Cellular
<1>4. WayBack'
  BY DEF EsimAssumption, IInv, TypeOK, Midnight, cardVars, webVars, dayVars, Jobs, Steps, Operations, Places, Web, OnTarget, WayBack, Sound, Early, NoJob, Cellular
<1>5. Handled' /\ ActsOnShown'
  BY DEF IInv, TypeOK, Midnight, cardVars, webVars, dayVars, Jobs, Steps, Operations, Places, Web, Handled, ActsOnShown, NoJob, Cellular
<1>6. Rests'
  BY DEF EsimAssumption, IInv, TypeOK, Midnight, cardVars, webVars, dayVars, Rests, KeepaliveDue
<1> QED BY <1>1, <1>2, <1>3, <1>4, <1>5, <1>6 DEF IInv

LEMMA RemoteDeleteKeeps ==
    ASSUME EsimAssumption, IInv, NEW p \in Profiles, RemoteDelete(p)
    PROVE  IInv'
<1>1. TypeOK'
  <2> DEFINE bad == job.trouble \/ (Cellular /\ p = job.began)
  <2>1. job \in Jobs /\ bad \in BOOLEAN
    BY DEF IInv, TypeOK, Jobs, Cellular
  <2>2. job' = [job EXCEPT !.trouble = bad]
    BY DEF RemoteDelete
  <2> HIDE DEF bad
  <2>3. job' \in Jobs
    BY <2>1, <2>2 DEF Jobs
  <2>4. installed' \subseteq Profiles /\ enabled \in installed' \cup {None}
    BY DEF IInv, TypeOK, RemoteDelete
  <2> QED BY <2>3, <2>4 DEF IInv, TypeOK, RemoteDelete, webVars, dayVars
<1>2. Places'
  BY ZenonT(60) DEF EsimAssumption, IInv, TypeOK, RemoteDelete, cardVars, webVars, dayVars, Jobs, Steps, Operations, Places, Web, NoJob, Cellular
<1>3. OnTarget' /\ Follows'
  BY DEF EsimAssumption, IInv, TypeOK, RemoteDelete, cardVars, webVars, dayVars, Jobs, Steps, Operations, Places, Web, OnTarget, Follows, NoJob, Cellular
<1>4. WayBack'
  BY DEF EsimAssumption, IInv, TypeOK, RemoteDelete, cardVars, webVars, dayVars, Jobs, Steps, Operations, Places, Web, OnTarget, WayBack, Sound, Early, NoJob, Cellular
<1>5. Handled' /\ ActsOnShown'
  BY DEF IInv, TypeOK, RemoteDelete, cardVars, webVars, dayVars, Jobs, Steps, Operations, Places, Web, Handled, ActsOnShown, NoJob, Cellular
<1>6. Rests'
  BY DEF EsimAssumption, IInv, TypeOK, RemoteDelete, cardVars, webVars, dayVars, Rests, KeepaliveDue
<1> QED BY <1>1, <1>2, <1>3, <1>4, <1>5, <1>6 DEF IInv

LEMMA StartDueKeeps ==
    ASSUME EsimAssumption, IInv, NEW target \in Profiles, NEW back \in BOOLEAN, StartDue(target, back)
    PROVE  IInv'
<1>1. TypeOK'
  <2>1. enabled \in Profiles \cup {None} /\ NoJob \in Jobs
    BY DEF IInv, TypeOK, NoJob, Jobs, Steps
  <2>2. job' \in Jobs
    BY <2>1 DEF StartDue, Jobs
  <2> QED BY <2>2 DEF IInv, TypeOK, StartDue, cardVars, webVars, dayVars
<1>2. Places'
  BY DEF EsimAssumption, IInv, TypeOK, StartDue, cardVars, webVars, dayVars, Jobs, Steps, Operations, Places, Web, NoJob, Cellular
<1>3. OnTarget' /\ Follows'
  BY DEF EsimAssumption, IInv, TypeOK, StartDue, cardVars, webVars, dayVars, Jobs, Steps, Operations, Places, Web, OnTarget, Follows, NoJob, Cellular
<1>4. WayBack'
  BY DEF EsimAssumption, IInv, TypeOK, StartDue, cardVars, webVars, dayVars, Jobs, Steps, Operations, Places, Web, OnTarget, WayBack, Sound, Early, NoJob, Cellular
<1>5. Handled' /\ ActsOnShown'
  BY DEF IInv, TypeOK, StartDue, cardVars, webVars, dayVars, Jobs, Steps, Operations, Places, Web, Handled, ActsOnShown, NoJob, Cellular
<1>6. Rests'
  BY DEF EsimAssumption, IInv, TypeOK, StartDue, cardVars, webVars, dayVars, Rests, KeepaliveDue
<1> QED BY <1>1, <1>2, <1>3, <1>4, <1>5, <1>6 DEF IInv

LEMMA StartRefreshKeeps == ASSUME EsimAssumption, IInv, StartRefresh PROVE IInv'
<1>1. TypeOK'
  BY ZenonT(60) DEF EsimAssumption, IInv, TypeOK, StartRefresh, cardVars, webVars, dayVars, Jobs, Steps, Operations, NoJob
<1>2. Places'
  BY DEF EsimAssumption, IInv, TypeOK, StartRefresh, cardVars, webVars, dayVars, Jobs, Steps, Operations, Places, Web, NoJob, Cellular
<1>3. OnTarget' /\ Follows'
  BY DEF EsimAssumption, IInv, TypeOK, StartRefresh, cardVars, webVars, dayVars, Jobs, Steps, Operations, Places, Web, OnTarget, Follows, NoJob, Cellular
<1>4. WayBack'
  BY DEF EsimAssumption, IInv, TypeOK, StartRefresh, cardVars, webVars, dayVars, Jobs, Steps, Operations, Places, Web, OnTarget, WayBack, Sound, Early, NoJob, Cellular
<1>5. Handled' /\ ActsOnShown'
  BY DEF IInv, TypeOK, StartRefresh, cardVars, webVars, dayVars, Jobs, Steps, Operations, Places, Web, Handled, ActsOnShown, NoJob, Cellular
<1>6. Rests'
  BY DEF EsimAssumption, IInv, TypeOK, StartRefresh, cardVars, webVars, dayVars, Rests, KeepaliveDue
<1> QED BY <1>1, <1>2, <1>3, <1>4, <1>5, <1>6 DEF IInv

\* A list that is published gives each of its profiles a handle of its own.
LEMMA PublishTyped ==
    ASSUME EsimAssumption, IInv, Publish
    PROVE  /\ cache'.gen \in 0 .. MaxShown /\ cache'.list \in Seq(Profiles)
           /\ shown' \subseteq Handles \X Profiles
           /\ Handled'
<1>1. /\ Listed \in Seq(Profiles)
      /\ Len(Listed) \in 0 .. Cardinality(Profiles)
  BY ListedType DEF IInv, TypeOK
<1>2. Cardinality(Profiles) \in Nat
  BY FS_CardinalityType DEF EsimAssumption
<1>3. cache'.gen = cache.gen + 1 /\ cache'.list = Listed /\ cache'.gen \in 1 .. MaxShown
  BY DEF Publish, IInv, TypeOK, EsimAssumption
<1>4. \A s \in shown : s \in Handles \X Profiles /\ s[1][1] \in 1 .. cache.gen
  BY DEF IInv, TypeOK, Handled
<1>5. ASSUME NEW s \in Named(cache.gen + 1, Listed)
      PROVE  /\ s \in Handles \X Profiles
             /\ s[1][1] = cache.gen + 1
             /\ Listed[s[1][2]] = s[2]
  <2>1. PICK i \in 1 .. Len(Listed) : s = <<<<cache.gen + 1, i>>, Listed[i]>>
    BY <1>5 DEF Named
  <2>2. Listed[i] \in Profiles /\ i \in 1 .. Cardinality(Profiles)
    BY <1>1, <1>2, <2>1
  <2>3. cache.gen + 1 \in 1 .. MaxShown
    BY <1>3
  <2> QED BY <2>1, <2>2, <2>3 DEF Handles
<1>6. shown' = shown \cup Named(cache.gen + 1, Listed)
  BY DEF Publish
<1>7. Handled'
  <2> SUFFICES ASSUME NEW s \in shown'
               PROVE  /\ s[1][1] \in 1 .. cache'.gen
                      /\ s[1][1] = cache'.gen /\ s[1][2] \in DOMAIN cache'.list
                            => cache'.list[s[1][2]] = s[2]
    BY DEF Handled
  <2>0. cache.gen \in Nat
    BY DEF IInv, TypeOK, EsimAssumption
  <2>1. CASE s \in shown
    <3>1. s[1][1] \in 1 .. cache.gen
      BY <1>4, <2>1
    <3>2. s[1][1] \in 1 .. cache.gen + 1 /\ s[1][1] # cache.gen + 1
      BY <2>0, <3>1
    <3> QED BY <1>3, <3>2
  <2>2. CASE s \in Named(cache.gen + 1, Listed)
    BY <1>3, <1>5, <2>2
  <2> QED BY <1>6, <2>1, <2>2
<1> QED BY <1>1, <1>3, <1>4, <1>5, <1>6, <1>7

LEMMA StartWebKeeps ==
    ASSUME EsimAssumption, IInv, NEW op \in Operations, NEW s \in shown, StartWeb(op, s)
    PROVE  IInv'
<1>0. /\ s \in Handles \X Profiles /\ s[1][2] \in DOMAIN cache.list /\ s[1][1] = cache.gen
      /\ cache.list[s[1][2]] = s[2] /\ s[2] \in Profiles
  BY DEF IInv, TypeOK, Handled, StartWeb, Resolves
<1>1. TypeOK'
  <2>1. job' \in Jobs
    BY <1>0 DEF StartWeb, NoJob, Jobs, Steps, Operations
  <2> QED BY <2>1 DEF EsimAssumption, IInv, TypeOK, StartWeb, cardVars, dayVars
<1>2. Places'
  BY <1>0 DEF Places, Web, Cellular, StartWeb, NoJob
<1>3. OnTarget' /\ Follows'
  BY DEF EsimAssumption, IInv, TypeOK, StartWeb, cardVars, webVars, dayVars, Jobs, Steps, Operations, Places, Web, OnTarget, Follows, NoJob, Cellular
<1>4. WayBack'
  BY DEF EsimAssumption, IInv, TypeOK, StartWeb, cardVars, webVars, dayVars, Jobs, Steps, Operations, Places, Web, OnTarget, WayBack, Sound, Early, NoJob, Cellular
<1>5. Handled' /\ ActsOnShown'
  BY <1>0 DEF IInv, Handled, ActsOnShown, StartWeb, NoJob
<1>6. Rests'
  BY DEF EsimAssumption, IInv, TypeOK, StartWeb, cardVars, webVars, dayVars, Rests, KeepaliveDue
<1> QED BY <1>1, <1>2, <1>3, <1>4, <1>5, <1>6 DEF IInv

LEMMA WebCommandKeeps ==
    ASSUME EsimAssumption, IInv, NEW done \in BOOLEAN, NEW ok \in BOOLEAN, WebCommand(done, ok)
    PROVE  IInv'
<1>1. TypeOK'
  BY DEF EsimAssumption, IInv, TypeOK, WebCommand, At, cardVars, webVars, dayVars, Jobs, Steps, Operations, NoJob
<1>2. Places'
  BY DEF EsimAssumption, IInv, TypeOK, WebCommand, At, cardVars, webVars, dayVars, Jobs, Steps, Operations, Places, Web, NoJob, Cellular
<1>3. OnTarget' /\ Follows'
  BY DEF EsimAssumption, IInv, TypeOK, WebCommand, At, cardVars, webVars, dayVars, Jobs, Steps, Operations, Places, Web, OnTarget, Follows, NoJob, Cellular
<1>4. WayBack'
  BY DEF EsimAssumption, IInv, TypeOK, WebCommand, At, cardVars, webVars, dayVars, Jobs, Steps, Operations, Places, Web, OnTarget, WayBack, Sound, Early, NoJob, Cellular
<1>5. Handled' /\ ActsOnShown'
  BY DEF IInv, TypeOK, WebCommand, At, cardVars, webVars, dayVars, Jobs, Steps, Operations, Places, Web, Handled, ActsOnShown, NoJob, Cellular
<1>6. Rests'
  BY DEF EsimAssumption, IInv, TypeOK, WebCommand, At, cardVars, webVars, dayVars, Rests, KeepaliveDue
<1> QED BY <1>1, <1>2, <1>3, <1>4, <1>5, <1>6 DEF IInv

LEMMA WebSettledKeeps == ASSUME EsimAssumption, IInv, WebSettled PROVE IInv'
<1>1. TypeOK'
  BY PublishTyped DEF EsimAssumption, IInv, TypeOK, WebSettled, cardVars, dayVars, NoJob, Jobs, Steps
<1>2. Places'
  BY DEF EsimAssumption, IInv, TypeOK, WebSettled, At, cardVars, webVars, dayVars, Jobs, Steps, Operations, Places, Web, NoJob, Cellular
<1>3. OnTarget' /\ Follows'
  BY DEF EsimAssumption, IInv, TypeOK, WebSettled, At, cardVars, webVars, dayVars, Jobs, Steps, Operations, Places, Web, OnTarget, Follows, NoJob, Cellular
<1>4. WayBack'
  BY DEF EsimAssumption, IInv, TypeOK, WebSettled, At, cardVars, webVars, dayVars, Jobs, Steps, Operations, Places, Web, OnTarget, WayBack, Sound, Early, NoJob, Cellular
<1>5. Handled' /\ ActsOnShown'
  BY PublishTyped DEF IInv, Handled, ActsOnShown, WebSettled, NoJob
<1>6. Rests'
  BY DEF EsimAssumption, IInv, TypeOK, WebSettled, At, cardVars, webVars, dayVars, Rests, KeepaliveDue
<1> QED BY <1>1, <1>2, <1>3, <1>4, <1>5, <1>6 DEF IInv

LEMMA WebUnsettledKeeps == ASSUME EsimAssumption, IInv, WebUnsettled PROVE IInv'
<1>1. TypeOK'
  BY DEF EsimAssumption, IInv, TypeOK, WebUnsettled, At, cardVars, webVars, dayVars, Jobs, Steps, Operations, NoJob
<1>2. Places'
  BY DEF EsimAssumption, IInv, TypeOK, WebUnsettled, At, cardVars, webVars, dayVars, Jobs, Steps, Operations, Places, Web, NoJob, Cellular
<1>3. OnTarget' /\ Follows'
  BY DEF EsimAssumption, IInv, TypeOK, WebUnsettled, At, cardVars, webVars, dayVars, Jobs, Steps, Operations, Places, Web, OnTarget, Follows, NoJob, Cellular
<1>4. WayBack'
  BY DEF EsimAssumption, IInv, TypeOK, WebUnsettled, At, cardVars, webVars, dayVars, Jobs, Steps, Operations, Places, Web, OnTarget, WayBack, Sound, Early, NoJob, Cellular
<1>5. Handled' /\ ActsOnShown'
  BY DEF IInv, TypeOK, WebUnsettled, At, cardVars, webVars, dayVars, Jobs, Steps, Operations, Places, Web, Handled, ActsOnShown, NoJob, Cellular
<1>6. Rests'
  BY DEF EsimAssumption, IInv, TypeOK, WebUnsettled, At, cardVars, webVars, dayVars, Rests, KeepaliveDue
<1> QED BY <1>1, <1>2, <1>3, <1>4, <1>5, <1>6 DEF IInv

LEMMA WebEndKeeps == ASSUME EsimAssumption, IInv, WebEnd PROVE IInv'
<1>1. TypeOK'
  BY PublishTyped DEF EsimAssumption, IInv, TypeOK, WebEnd, cardVars, dayVars, NoJob, Jobs, Steps
<1>2. Places'
  BY DEF EsimAssumption, IInv, TypeOK, WebEnd, At, cardVars, webVars, dayVars, Jobs, Steps, Operations, Places, Web, NoJob, Cellular
<1>3. OnTarget' /\ Follows'
  BY DEF EsimAssumption, IInv, TypeOK, WebEnd, At, cardVars, webVars, dayVars, Jobs, Steps, Operations, Places, Web, OnTarget, Follows, NoJob, Cellular
<1>4. WayBack'
  BY DEF EsimAssumption, IInv, TypeOK, WebEnd, At, cardVars, webVars, dayVars, Jobs, Steps, Operations, Places, Web, OnTarget, WayBack, Sound, Early, NoJob, Cellular
<1>5. Handled' /\ ActsOnShown'
  BY PublishTyped DEF IInv, Handled, ActsOnShown, WebEnd, NoJob
<1>6. Rests'
  BY DEF EsimAssumption, IInv, TypeOK, WebEnd, At, cardVars, webVars, dayVars, Rests, KeepaliveDue
<1> QED BY <1>1, <1>2, <1>3, <1>4, <1>5, <1>6 DEF IInv

LEMMA InvInitial == ASSUME EsimAssumption, Init PROVE IInv
<1>1. enabled \in Profiles
  BY DEF Init, EsimAssumption
<1>2. NoJob \in Jobs
  BY DEF NoJob, Jobs, Steps
<1>3. TypeOK
  <2>1. /\ installed \subseteq Profiles /\ enabled \in installed \cup {None}
        /\ iccids \subseteq Profiles /\ live \in Profiles \cup {None}
        /\ modem \in {"down", "at", "ready"} /\ job \in Jobs
        /\ shown \subseteq Handles \X Profiles /\ lost \in BOOLEAN
    BY <1>1, <1>2 DEF Init
  <2>2. cache.gen = 0 /\ cache.list = <<>> /\ <<>> \in Seq(Profiles)
    BY DEF Init
  <2>3. /\ kaLast \in 0 .. MaxDay /\ day \in 0 .. MaxDay
        /\ cache.gen \in 0 .. MaxShown /\ web \in 0 .. MaxWeb
        /\ failed \in 0 .. MaxDay \cup {MaxDay + 1}
    BY <2>2 DEF Init, EsimAssumption
  <2> QED BY <2>1, <2>2, <2>3 DEF TypeOK
<1>4. Places /\ OnTarget /\ Follows /\ WayBack /\ Handled /\ ActsOnShown
  BY <1>1 DEF Init, Places, OnTarget, Follows, WayBack, Sound, Handled, ActsOnShown, Cellular, Web, NoJob
<1>5. Rests
  BY DEF Init, Rests, EsimAssumption
<1> QED BY <1>3, <1>4, <1>5 DEF IInv

LEMMA JobStepKeeps == ASSUME EsimAssumption, IInv, JobStep PROVE IInv'
  BY ListFailsKeeps, PrepareKeeps, EnableConfirmedKeeps, EnableRefusedKeeps, EnableLostKeeps,
     EnableBusyKeeps, RetryKeeps, RetryTooLateKeeps, RegisteredKeeps, WaitAgainKeeps,
     UnregisteredKeeps, ActKeeps, RestoreKeeps, RecordKeeps, RereadKeeps, RereadFailsKeeps,
     WebCommandKeeps, WebSettledKeeps, WebUnsettledKeeps, WebEndKeeps
  DEF JobStep

LEMMA InvKept == ASSUME EsimAssumption, IInv, [Next]_vars PROVE IInv'
<1>1. CASE JobStep
  BY <1>1, JobStepKeeps
<1>2. CASE Boots \/ Registers \/ Midnight \/ StartRefresh
  BY <1>2, BootsKeeps, RegistersKeeps, MidnightKeeps, StartRefreshKeeps
<1>3. CASE \E p \in Profiles : RemoteDelete(p)
  BY <1>3, RemoteDeleteKeeps
<1>4. CASE \E target \in Profiles, back \in BOOLEAN : StartDue(target, back)
  BY <1>4, StartDueKeeps
<1>5. CASE \E op \in Operations, s \in shown : StartWeb(op, s)
  BY <1>5, StartWebKeeps
<1>6. CASE UNCHANGED vars
  BY <1>6 DEF vars, IInv, TypeOK, Places, Web, OnTarget, Follows, WayBack, Sound, Early, Handled,
              ActsOnShown, Rests, KeepaliveDue, Cellular
<1> QED BY <1>1, <1>2, <1>3, <1>4, <1>5, <1>6 DEF Next

LEMMA Invariance == ASSUME EsimAssumption PROVE Spec => []IInv
<1>1. Init => IInv
  BY InvInitial
<1>2. IInv /\ [Next]_vars => IInv'
  BY InvKept
<1> QED BY <1>1, <1>2, PTL DEF Spec

-----------------------------------------------------------------------------
(* What the invariant says of states and of steps.                         *)

LEMMA InvIsTrue == IInv => SwitchTrue
  BY DEF IInv, OnTarget, Follows, SwitchTrue, RunsOnEnabled, ActsOnTarget, At

\* The last step of a job that is to switch back is its record, and it has
\* undone the switch by then.
LEMMA StepRestores == ASSUME IInv, Next PROVE Restores
<1> SUFFICES ASSUME Cellular, job.back, job'.kind = "none"
             PROVE  enabled = job.began \/ job.trouble \/ job.began \notin iccids
  BY DEF Restores
<1>1. job.kind = "cellular" /\ Places
  BY DEF Cellular, IInv
<1>2. JobStep
  BY <1>1 DEF Next, Boots, Registers, Midnight, RemoteDelete, StartDue, StartWeb, StartRefresh,
              IInv, TypeOK, Jobs
<1>3. Record
  <2>1. ~(ListFails \/ EnableBusy \/ Retry \/ Registered \/ WaitAgain \/ Unregistered)
    BY <1>1 DEF ListFails, EnableBusy, Retry, Registered, WaitAgain, Unregistered, Goto,
                IInv, TypeOK, Jobs
  <2>2. ~Prepare /\ ~EnableConfirmed /\ ~Act /\ ~Restore
    BY <1>1 DEF Prepare, EnableConfirmed, Confirmed, Act, Restore, IInv, TypeOK, Jobs
  <2>3. ~EnableRefused /\ ~EnableLost /\ ~RetryTooLate
    BY <1>1 DEF EnableRefused, EnableLost, RetryTooLate, Fails, IInv, TypeOK, Jobs
  <2>4. ~Reread /\ ~RereadFails /\ \A done, ok \in BOOLEAN : ~WebCommand(done, ok)
    BY <1>1 DEF Reread, RereadFails, WebCommand
  <2>5. ~WebSettled /\ ~WebUnsettled /\ ~WebEnd
    BY <1>1 DEF WebSettled, WebUnsettled, WebEnd, At, Places, Cellular
  <2> QED BY <1>2, <2>1, <2>2, <2>3, <2>4, <2>5 DEF JobStep
<1>4. job.step = "record"
  BY <1>3 DEF Record, At
<1>5. Sound => enabled = job.began
  BY <1>4 DEF IInv, WayBack
<1> QED BY <1>5 DEF Sound

\* Only the scheduler starts a switching job, and not on the day of a failure.
LEMMA StepPutsOff == ASSUME IInv, Next PROVE PutsOff
<1> SUFFICES ASSUME job.kind = "none", job'.kind = "cellular" PROVE day # failed
  BY DEF PutsOff
<1>1. KeepaliveDue(kaLast, day)
  <2>1. job = NoJob
    BY DEF IInv, Places
  <2> QED
    BY <2>1 DEF Next, JobStep, NoJob, Cellular, At, Goto, Confirmed, Fails, Unable, Boots, Registers,
         Midnight, RemoteDelete, StartDue, StartWeb, StartRefresh, ListFails, Prepare,
         EnableConfirmed, EnableRefused, EnableLost, EnableBusy, Retry, RetryTooLate,
         Registered, WaitAgain, Unregistered, Act, Restore, Record, Reread, RereadFails,
         WebCommand, WebSettled, WebUnsettled, WebEnd
<1>2. Rests
  BY DEF IInv
<1> QED BY <1>1, <1>2 DEF Rests

-----------------------------------------------------------------------------
(* The theorems.                                                           *)

\* Whatever fails, a job that is registered runs on the profile it was meant for,
\* and the user's operation acts on the profile he was shown: esim_task,
\* keepalive_task and resolve_esim_handle keep them apart.
THEOREM ActsRightly == ASSUME EsimAssumption PROVE Spec => []SwitchTrue
<1> QED BY InvIsTrue, Invariance, PTL

\* A job that is to switch back does so (esim_restore_profile), unless the card
\* refused, an answer was lost, or the original profile is gone or has no name.
THEOREM SwitchesBack == ASSUME EsimAssumption PROVE Spec => OriginalRestored
<1>1. IInv /\ [Next]_vars => [Restores]_vars
  BY StepRestores
<1> QED BY <1>1, Invariance, PTL DEF Spec, OriginalRestored

\* After a failure on record no switching job starts on the same day.
THEOREM PutsOffADay == ASSUME EsimAssumption PROVE Spec => PutOffADay
<1>1. IInv /\ [Next]_vars => [PutsOff]_vars
  BY StepPutsOff
<1> QED BY <1>1, Invariance, PTL DEF Spec, PutOffADay
=============================================================================
