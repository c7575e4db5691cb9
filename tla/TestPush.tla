------------------------------ MODULE TestPush ------------------------------
(* The test of a push channel: the handler queues it (idf_push_enqueue_test), *)
(* the push worker takes it up when the forwarding queues left it time        *)
(* (process_test_one), sends one message through send_to_channel and records  *)
(* how that went; the page asks for the state meanwhile. A channel has one    *)
(* slot. Settings, network and clock change at any time, and each side works  *)
(* with the copy it read. Of a message only the way it took and what the      *)
(* target made of it are kept.                                                *)
EXTENDS Naturals, FiniteSets

CONSTANTS
    Channels,
    PendingMax,     \* PUSH_TEST_PENDING_MAX_US, in ticks
    WaitTime,       \* the pause while the clock is not set, in ticks
    MaxTests,       \* tests asked for (a bound)
    MaxTime,        \* clock, but for waiting tests (a bound)
    MaxEvents       \* changes of settings and network (a bound)

VARIABLES
    job,        \* s_test_jobs
    settings,   \* the configuration's push part
    wifi,       \* staConnected
    synced,     \* time() is past 2023
    clock, events,
    web,        \* the handler: what it has checked
    worker,     \* process_test_one: its copies
    tests       \* tests queued so far

vars == <<job, settings, wifi, synced, clock, events, web, worker, tests>>

Modes == {"wifi", "cellular", "mix"}
Ways == {"wifi", "cellular", "defer"}

\* A channel as configured: channel_valid, a target reached over HTTPS (or signed
\* by the time), cellularEnabled with a usable target, a root certificate.
Channel == [valid : BOOLEAN, timed : BOOLEAN, cellular : BOOLEAN, root : BOOLEAN]
Settings == [enabled : BOOLEAN, mode : Modes, channel : [Channels -> Channel]]

Idle == [at |-> "idle"]
Empty == [pending |-> FALSE, running |-> FALSE, done |-> FALSE, success |-> FALSE, next |-> 0,
          deadline |-> 0, path |-> "none", attempted |-> FALSE, stage |-> "none", status |-> 0,
          asked |-> 0, of |-> 0]

Plain == [valid |-> TRUE, timed |-> TRUE, cellular |-> TRUE, root |-> TRUE]
Init ==
    /\ job = [c \in Channels |-> Empty]
    /\ settings \in [enabled : {TRUE}, mode : Modes, channel : {[c \in Channels |-> Plain]}]
    /\ wifi \in BOOLEAN /\ synced \in BOOLEAN
    /\ clock = 1 /\ events = 0 /\ tests = 0
    /\ web = Idle /\ worker = Idle

(* ---- Network and sending ----------------------------------------------- *)
\* idf_push_select_network
Select(mode, up) ==
    CASE mode = "cellular" -> "cellular"
      [] mode = "wifi" -> IF up THEN "wifi" ELSE "defer"
      [] mode = "mix" -> IF up THEN "wifi" ELSE "cellular"

\* idf_push_prepare_cellular_target
Prepared(ch) == ch.cellular

\* channel_waits_for_time
WaitsForTime(ch, way) ==
    ~synced /\ ch.valid /\ (IF way = "cellular" THEN Prepared(ch) ELSE ch.timed)

\* What a request may come to: an error of the transport with whatever status
\* was read, or an answer.
Answers == [error : BOOLEAN, status : {0, 200, 404}]

\* idf_push_dispatch_request: the outcome of a request that went out.
Good(a) == ~a.error /\ a.status = 200
Stage(a) ==
    CASE Good(a) -> "none"
      [] a.status = 404 -> "http"
      [] OTHER -> IF a.error THEN "modem" ELSE "response"

Outcome(ok, way, tried, stage, status) ==
    [success |-> ok, path |-> way, attempted |-> tried, stage |-> stage, status |-> status]

\* send_to_channel: without a request the reason, with one what came of it. A
\* title or body that cannot be rendered makes no request either.
Sent(ch, way) ==
    IF ~ch.valid \/ (way = "cellular" /\ ~Prepared(ch))
    THEN {Outcome(FALSE, way, FALSE, "target", 0)}
    ELSE IF way = "cellular" /\ ~ch.root THEN {Outcome(FALSE, way, FALSE, "ca", 0)}
    ELSE {Outcome(FALSE, way, FALSE, "request", 0)} \cup
         {Outcome(Good(a), way, TRUE, Stage(a), a.status) : a \in Answers}

(* ---- The slots --------------------------------------------------------- *)
Over(j, stage) == [Empty EXCEPT !.done = TRUE, !.stage = stage, !.asked = j.asked, !.of = j.asked]

\* Tests wait for as long as it takes.
NeverExpired(j) == FALSE
\* expire_test_jobs_locked
Expired(j) == j.pending /\ j.deadline > 0 /\ j.deadline <= clock
Expire(jobs) == [c \in Channels |-> IF Expired(jobs[c]) THEN Over(jobs[c], "preflight")
                                                        ELSE jobs[c]]
\* fail_pending_tests
FailPending(jobs) == [c \in Channels |-> IF jobs[c].pending \/ jobs[c].running
                                         THEN Over(jobs[c], "preflight") ELSE jobs[c]]

\* Only what waits is busy.
BusyQueued(j) == j.pending
Busy(j) == j.pending \/ j.running

(* ---- The handler ------------------------------------------------------- *)
\* idf_push_test_channel_active, or the first look of idf_push_enqueue_test.
Ask(c) ==
    /\ web = Idle /\ tests < MaxTests
    /\ job' = Expire(job)
    /\ web' = IF Busy(job'[c]) THEN Idle ELSE [at |-> "asked", channel |-> c]
    /\ UNCHANGED <<settings, wifi, synced, clock, events, worker, tests>>

\* Settings and network are read without the mutex.
Admit ==
    /\ web.at = "asked"
    /\ LET way == Select(settings.mode, wifi) IN
         web' = IF ~settings.enabled \/ way = "defer" THEN Idle
                ELSE [at |-> "admitted", channel |-> web.channel,
                      valid |-> settings.channel[web.channel].valid]
    /\ UNCHANGED <<job, settings, wifi, synced, clock, events, worker, tests>>

Queue ==
    /\ web.at = "admitted" /\ web' = Idle
    /\ LET c == web.channel jobs == Expire(job) ok == web.valid /\ ~Busy(jobs[c]) IN
         /\ job' = IF ok THEN [jobs EXCEPT ![c] = [Empty EXCEPT !.pending = TRUE,
                                                   !.deadline = clock + PendingMax,
                                                   !.asked = tests + 1]]
                         ELSE jobs
         /\ tests' = tests + (IF ok THEN 1 ELSE 0)
    /\ UNCHANGED <<settings, wifi, synced, clock, events, worker>>

\* idf_push_test_status_json and idf_push_test_active.
Status == job' = Expire(job) /\ UNCHANGED <<settings, wifi, synced, clock, events, web, worker,
                                            tests>>

(* ---- The worker: process_test_one -------------------------------------- *)
Begin ==
    /\ worker = Idle
    /\ job' = Expire(job)
    /\ worker' = IF job' # job THEN Idle ELSE [at |-> "looked", now |-> clock]
    /\ UNCHANGED <<settings, wifi, synced, clock, events, web, tests>>

\* The copies of the settings and of the network.
Copy ==
    /\ worker.at = "looked"
    /\ LET way == Select(settings.mode, wifi) IN
       IF ~settings.enabled
       THEN job' = FailPending(job) /\ worker' = Idle
       ELSE /\ UNCHANGED job
            /\ \/ worker' = Idle /\ way \in {"defer", "wifi"}   \* no network, low_heap_defer
               \/ /\ way # "defer"
                  /\ worker' = [at |-> "copied", now |-> worker.now, way |-> way,
                                channel |-> settings.channel]
    /\ UNCHANGED <<settings, wifi, synced, clock, events, web, tests>>

Open(c) == job[c].pending /\ job[c].next <= worker.now
Waiting(c) == Open(c) /\ WaitsForTime(worker.channel[c], worker.way)
Postponed(c) == [job[c] EXCEPT !.next = worker.now + WaitTime]
Started(c) == [Empty EXCEPT !.running = TRUE, !.path = worker.way, !.asked = job[c].asked]

\* The first channel whose turn it is; those before it that wait for the time
\* are put off. Channels are numbered.
Pick ==
    /\ worker.at = "copied"
    /\ LET ready == {c \in Channels : Open(c) /\ ~Waiting(c)}
           first == CHOOSE c \in ready : \A d \in ready : c <= d IN
         IF ready = {}
         THEN /\ job' = [c \in Channels |-> IF Waiting(c) THEN Postponed(c) ELSE job[c]]
              /\ worker' = Idle
         ELSE /\ job' = [c \in Channels |-> IF c = first THEN Started(c)
                            ELSE IF c < first /\ Waiting(c) THEN Postponed(c) ELSE job[c]]
              /\ worker' = [at |-> "sending", channel |-> worker.channel[first],
                            way |-> worker.way, picked |-> first, test |-> job[first].asked]
    /\ UNCHANGED <<settings, wifi, synced, clock, events, web, tests>>

Send ==
    /\ worker.at = "sending"
    /\ \E o \in Sent(worker.channel, worker.way) :
         worker' = [at |-> "sent", picked |-> worker.picked, test |-> worker.test, outcome |-> o]
    /\ UNCHANGED <<job, settings, wifi, synced, clock, events, web, tests>>

\* idf_push_complete_test_job writes into the slot, whatever it holds by now.
Complete ==
    /\ worker.at = "sent" /\ worker' = Idle
    /\ LET c == worker.picked o == worker.outcome IN
         job' = [job EXCEPT ![c] = [Over(job[c], o.stage) EXCEPT !.success = o.success,
                    !.path = o.path, !.attempted = o.attempted, !.status = o.status,
                    !.of = worker.test]]
    /\ UNCHANGED <<settings, wifi, synced, clock, events, web, tests>>

(* ---- Around ------------------------------------------------------------ *)
Change ==
    /\ events < MaxEvents /\ events' = events + 1
    /\ \/ /\ UNCHANGED <<wifi, synced>>
          /\ \/ settings' = [settings EXCEPT !.enabled = ~@]
             \/ \E m \in Modes : settings' = [settings EXCEPT !.mode = m]
             \/ \E c \in Channels, f \in {"valid", "cellular", "root"} :
                  settings' = [settings EXCEPT !.channel[c][f] = ~@]
       \/ wifi' = ~wifi /\ UNCHANGED <<settings, synced>>
       \/ ~synced /\ synced' = TRUE /\ UNCHANGED <<settings, wifi>>
    /\ UNCHANGED <<job, clock, web, worker, tests>>

\* Time goes on past the bound while a test waits.
Tick ==
    /\ clock < MaxTime \/ \E c \in Channels : job[c].pending /\ clock < job[c].deadline
    /\ clock' = clock + 1
    /\ UNCHANGED <<job, settings, wifi, synced, events, web, worker, tests>>

Handler == (\E c \in Channels : Ask(c)) \/ Admit \/ Queue
Worker == Begin \/ Copy \/ Pick \/ Send \/ Complete
Next == Handler \/ Status \/ Worker \/ Change \/ Tick
Spec == Init /\ [][Next]_vars

-----------------------------------------------------------------------------
TypeOK ==
    /\ settings \in Settings
    /\ \A c \in Channels :
         /\ job[c].path \in Ways \cup {"none"}
         /\ job[c].stage \in {"none", "preflight", "target", "ca", "request", "modem", "response",
                              "http"}
         /\ job[c].next \in Nat /\ job[c].deadline \in Nat
         /\ ~(job[c].pending /\ job[c].running) /\ ~(Busy(job[c]) /\ job[c].done)
    /\ clock \in Nat /\ tests \in 0 .. MaxTests

\* What a slot says is over is the test last asked for, and it says success only
\* when a request of that test was answered with 2xx.
ResultOwn ==
    \A c \in Channels :
      /\ job[c].done => job[c].of = job[c].asked
      /\ job[c].success => job[c].done /\ job[c].attempted /\ job[c].status = 200

\* A running test is the worker's.
RunningIsWorkers ==
    \A c \in Channels : job[c].running =>
        worker.at \in {"sending", "sent"} /\ worker.picked = c /\ worker.test = job[c].asked

Waits(c) == job[c].pending \/ job[c].running
TestOver(c) == job[c].done

\* Every test asked for is over some time.
TestsEnd == \A c \in Channels : Waits(c) ~> TestOver(c)

-----------------------------------------------------------------------------
(* The inductive invariant.                                                *)

TestAssumption ==
    /\ Channels \subseteq Nat /\ PendingMax \in Nat /\ WaitTime \in Nat
    /\ MaxTests \in Nat /\ MaxTime \in Nat /\ MaxEvents \in Nat

Jobs ==
    [pending : BOOLEAN, running : BOOLEAN, done : BOOLEAN, success : BOOLEAN, next : Nat,
     deadline : Nat, path : Ways \cup {"none"}, attempted : BOOLEAN,
     stage : {"none", "preflight", "target", "ca", "request", "modem", "response", "http"},
     status : {0, 200, 404}, asked : Nat, of : Nat]
Outcomes ==
    [success : BOOLEAN, path : Ways, attempted : BOOLEAN, status : {0, 200, 404},
     stage : {"none", "target", "ca", "request", "modem", "response", "http"}]

\* The handler goes on only while the bound allows a test.
HandlerSound ==
    /\ web \in {Idle} \cup [at : {"asked"}, channel : Channels]
                     \cup [at : {"admitted"}, channel : Channels, valid : BOOLEAN]
    /\ web # Idle => tests < MaxTests

\* While the worker sends, the slot holds the test it took up.
WorkerSound ==
    /\ worker \in {Idle} \cup [at : {"looked"}, now : Nat]
            \cup [at : {"copied"}, now : Nat, way : {"wifi", "cellular"},
                 channel : [Channels -> Channel]]
            \cup [at : {"sending"}, channel : Channel, way : {"wifi", "cellular"},
                 picked : Channels, test : Nat]
            \cup [at : {"sent"}, picked : Channels, test : Nat, outcome : Outcomes]
    /\ worker.at \in {"sending", "sent"} =>
         job[worker.picked].running /\ job[worker.picked].asked = worker.test
    /\ worker.at = "sent" /\ worker.outcome.success =>
         worker.outcome.attempted /\ worker.outcome.status = 200

IInv == /\ TypeOK /\ ResultOwn /\ RunningIsWorkers
        /\ job \in [Channels -> Jobs] /\ events \in Nat
        /\ HandlerSound /\ WorkerSound
=============================================================================
