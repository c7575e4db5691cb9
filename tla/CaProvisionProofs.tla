------------------------- MODULE CaProvisionProofs -------------------------
(***************************************************************************)
(* The store of certificate authorities: the invariants of CaProvision,    *)
(* proved for all servers, authorities, channels and slots, and for power  *)
(* cuts between any two writes.                                            *)
(***************************************************************************)
EXTENDS CaProvision, TLAPS, FiniteSetTheorems, WellFoundedInduction

-----------------------------------------------------------------------------
(* The inductive invariant.                                                *)

Cert    == [c : Certs]
Binding == [origin : Origins, cert : Certs]
Session == [nonce : Nat, gen : Nat, origin : Origins, chain : Certs]

ProbeJob ==
    [at : {"target"}, ch : Channels, gen : Nat]
    \cup [at : {"cleared", "probe"}, ch : Channels, gen : Nat, origin : Origins]
    \cup [at : {"keep"}, ch : Channels, gen : Nat, origin : Origins, chain : Certs]
CheckJob == [at : {"check"}, ch : Channels, s : Session, c : Certs]
StoreJob == [at : {"cert", "bind", "gc", "done"}, ch : Channels, o : Origins, c : Certs,
             gen : Nat, slot : CertSlots, bslot : BindSlots]
Job == {NoJob} \cup ProbeJob \cup CheckJob \cup StoreJob

Types ==
    /\ target \in [Channels -> Origins] /\ issuer \in [Origins -> Certs]
    /\ generation \in 1 .. MaxSaves + 1 /\ nonces \in 0 .. MaxProbes
    /\ cert \in [CertSlots -> {None} \cup Cert]
    /\ bind \in [BindSlots -> {None} \cup Binding]
    /\ session \in [Channels -> {None} \cup Session]
    /\ job \in Job
    /\ faults \in 0 .. MaxFaults

\* Each origin has at most one binding, each binding its certificate, and no
\* certificate is in two slots.
OneBinding ==
    \A a, b \in BindSlots :
        bind[a] # None /\ bind[b] # None /\ bind[a].origin = bind[b].origin => a = b
Backed == \A b \in BindSlots : bind[b] # None => Held(bind[b].cert) # {}
OneCopy == \A s, t \in CertSlots : cert[s] # None /\ cert[s] = cert[t] => s = t

\* The installation under way: it stores what was verified; a certificate goes
\* where nothing is bound to; the binding is the origin's own or in a free slot.
Working ==
    /\ job.at \in {"cert", "bind"} =>
         /\ <<job.o, job.c>> \in verified
         /\ \A b \in BindSlots : bind[b] # None /\ bind[b].origin = job.o => b = job.bslot
    /\ job.at = "cert" =>
         /\ Held(job.c) = {}
         /\ \A b \in BindSlots : bind[b] # None => cert[job.slot] # [c |-> bind[b].cert]
    /\ job.at = "bind" => Held(job.c) # {}
    /\ job.at \in {"gc", "done"} => bind[job.bslot] = [origin |-> job.o, cert |-> job.c]

\* What was read at a generation that is still current is the channel's target.
Current(gen, ch, o) == gen <= generation /\ (gen = generation => target[ch] = o)
Timely ==
    /\ \A c \in Channels : session[c] # None =>
         Current(session[c].gen, c, session[c].origin) /\ session[c].nonce \in 1 .. nonces
    /\ job.at = "target" => job.gen <= generation
    /\ job.at \in {"target", "cleared", "probe", "keep"} => nonces < MaxProbes
    /\ job.at \in {"cleared", "probe", "keep"} => Current(job.gen, job.ch, job.origin)
    /\ job.at = "check" => Current(job.s.gen, job.ch, job.s.origin)
    /\ job.at \in {"cert", "bind", "gc", "done"} => Current(job.gen, job.ch, job.o)

IInv == Types /\ Timely /\ OneBinding /\ Backed /\ OneCopy /\ BoundVerified /\ Working

-----------------------------------------------------------------------------
(* Slots.                                                                  *)

\* None is no certificate, no binding and no session.
LEMMA NoneApart ==
    /\ \A x \in Cert : x # None
    /\ \A x \in Binding : x # None
    /\ \A x \in Session : x # None
  BY DEF None, Cert, Binding, Session

\* A finite set of numbers has a lowest: else what is below its members would
\* be an endless descent of finite sets.
LEMMA LowestExists ==
    ASSUME NEW S, S \subseteq Nat, IsFiniteSet(S), S # {}
    PROVE  Lowest(S) \in S
<1> DEFINE Below(s) == {t \in S : t < s}
           T == {Below(s) : s \in S}
           R == StrictSubsetOrdering(S)
<1>1. T \subseteq FiniteSubsetsOf(S) /\ T # {}
  <2>1. \A s \in S : Below(s) \in SUBSET S
    OBVIOUS
  <2>2. \A s \in S : IsFiniteSet(Below(s))
    BY <2>1, FS_Subset
  <2> QED BY <2>1, <2>2 DEF FiniteSubsetsOf
<1>2. PICK X \in T : \A Y \in T : <<Y, X>> \notin R
  BY <1>1, WFMin, FS_StrictSubsetOrderingWellFounded
<1>3. PICK x \in S : X = Below(x)
  OBVIOUS
<1>4. ASSUME NEW y \in S, y < x
      PROVE  FALSE
  <2>1. \A t \in S : t < y => t < x
    BY <1>4
  <2>2. Below(y) \subseteq Below(x) /\ Below(x) \subseteq S /\ Below(y) \subseteq S
    BY <2>1
  <2>3. y \in Below(x) /\ y \notin Below(y)
    BY <1>4
  <2>4. <<Below(y), Below(x)>> \in R
    BY <2>2, <2>3 DEF StrictSubsetOrdering
  <2> QED BY <2>4, <1>2, <1>3
<1>5. \E s \in S : \A t \in S : s <= t
  BY <1>4
<1> QED BY <1>5 DEF Lowest

\* The slots that are looked for are of the kind the code asks for, first come
\* first served; 0 says that there is none.
LEMMA BindSlotFound ==
    ASSUME CaAssumption, Types, NEW o, BindSlot(o) # 0
    PROVE  /\ BindSlot(o) \in BindSlots
           /\ Bound(o) # {} => BindSlot(o) \in Bound(o)
<1> DEFINE Choices == <<Bound(o), Free(BindSlots, bind)>>
<1>1. DOMAIN Choices = {1, 2} /\ Choices[1] = Bound(o) /\ Choices[2] = Free(BindSlots, bind)
  OBVIOUS
<1>2. /\ Bound(o) \subseteq BindSlots /\ Free(BindSlots, bind) \subseteq BindSlots
      /\ IsFiniteSet(Bound(o)) /\ IsFiniteSet(Free(BindSlots, bind))
  BY FS_Subset DEF CaAssumption, Bound, Free
<1>3. /\ Bound(o) # {} => Lowest(Bound(o)) \in Bound(o)
      /\ Free(BindSlots, bind) # {} => Lowest(Free(BindSlots, bind)) \in Free(BindSlots, bind)
  BY <1>2, LowestExists DEF CaAssumption
<1> HIDE DEF Choices
<1>4. FirstOf(Choices) # 0
  BY DEF BindSlot, Choices
<1>5. PICK i \in DOMAIN Choices :
         /\ FirstOf(Choices) = Lowest(Choices[i]) /\ Choices[i] # {}
         /\ \A m \in DOMAIN Choices : m < i => Choices[m] = {}
  <2>1. \E i \in DOMAIN Choices : Choices[i] # {} /\ \A m \in DOMAIN Choices : m < i => Choices[m] = {}
    BY <1>1, <1>4 DEF FirstOf
  <2> QED BY <2>1, <1>4 DEF FirstOf
<1>6. BindSlot(o) = Lowest(Choices[i])
  BY <1>5 DEF BindSlot, Choices
<1> QED BY <1>1, <1>2, <1>3, <1>5, <1>6

LEMMA CertSlotFound ==
    ASSUME CaAssumption, Types, NEW c, CertSlot(c) # 0
    PROVE  /\ CertSlot(c) \in CertSlots
           /\ Held(c) = {} => CertSlot(c) \in Free(CertSlots, cert) \cup Unreferenced
<1> DEFINE Choices == <<Held(c), Free(CertSlots, cert), Unreferenced>>
<1>1. /\ DOMAIN Choices = {1, 2, 3}
      /\ Choices[1] = Held(c) /\ Choices[2] = Free(CertSlots, cert) /\ Choices[3] = Unreferenced
  OBVIOUS
<1>2. \A S \in {Held(c), Free(CertSlots, cert), Unreferenced} : S \subseteq CertSlots /\ IsFiniteSet(S)
  <2>1. Held(c) \subseteq CertSlots /\ Free(CertSlots, cert) \subseteq CertSlots /\ Unreferenced \subseteq CertSlots
    BY DEF Held, Free, Unreferenced
  <2> QED BY ZenonT(60), <2>1, FS_Subset DEF CaAssumption
<1>3. \A S \in {Held(c), Free(CertSlots, cert), Unreferenced} : S # {} => Lowest(S) \in S
  BY <1>2, LowestExists DEF CaAssumption
<1> HIDE DEF Choices
<1>4. FirstOf(Choices) # 0
  BY DEF CertSlot, Choices
<1>5. PICK i \in DOMAIN Choices :
         /\ FirstOf(Choices) = Lowest(Choices[i]) /\ Choices[i] # {}
         /\ \A m \in DOMAIN Choices : m < i => Choices[m] = {}
  <2>1. \E i \in DOMAIN Choices : Choices[i] # {} /\ \A m \in DOMAIN Choices : m < i => Choices[m] = {}
    BY <1>1, <1>4 DEF FirstOf
  <2> QED BY <2>1, <1>4 DEF FirstOf
<1>6. CertSlot(c) = Lowest(Choices[i]) /\ Choices[i] \in {Held(c), Free(CertSlots, cert), Unreferenced}
  BY <1>1, <1>5 DEF CertSlot, Choices
<1>7. CertSlot(c) \in Choices[i] /\ CertSlot(c) \in CertSlots
  BY <1>2, <1>3, <1>5, <1>6
<1>8. i = 1 => Held(c) # {}
  BY <1>1, <1>5
<1> QED BY <1>1, <1>7, <1>8

-----------------------------------------------------------------------------
(* Steps.                                                                  *)

\* Where the job stands says what it carries.
LEMMA JobOfKind ==
    ASSUME job \in Job
    PROVE  /\ job.at = "target" => job \in [at : {"target"}, ch : Channels, gen : Nat]
           /\ job.at \in {"cleared", "probe"} =>
                job \in [at : {"cleared", "probe"}, ch : Channels, gen : Nat, origin : Origins]
           /\ job.at = "keep" =>
                job \in [at : {"keep"}, ch : Channels, gen : Nat, origin : Origins, chain : Certs]
           /\ job.at = "check" => job \in CheckJob
           /\ job.at \in {"cert", "bind", "gc", "done"} => job \in StoreJob
  BY DEF Job, NoJob, ProbeJob, CheckJob, StoreJob

LEMMA TypesKept ==
    ASSUME CaAssumption, IInv, Next
    PROVE  Types'
<1>0. Types /\ job \in Job
  BY DEF IInv, Types
<1>n. /\ MaxFaults \in Nat /\ MaxProbes \in Nat /\ MaxSaves \in Nat
      /\ faults \in 0 .. MaxFaults /\ nonces \in 0 .. MaxProbes /\ generation \in 1 .. MaxSaves + 1
  BY <1>0 DEF Types, CaAssumption
<1>a. faults < MaxFaults => faults + 1 \in 0 .. MaxFaults
  BY <1>n
<1>b. nonces < MaxProbes => nonces + 1 \in 0 .. MaxProbes
  BY <1>n
<1>c. generation \in Nat /\ nonces \in Nat
  BY <1>n
<1>d. generation <= MaxSaves => generation + 1 \in 1 .. MaxSaves + 1
  BY <1>n
<1>e. /\ \A ch \in Channels : target[ch] \in Origins
      /\ \A o \in Origins : issuer[o] \in Certs
      /\ \A ch \in Channels : session[ch] # None => session[ch] \in Session
  BY <1>0 DEF Types
<1> USE DEF Types
<1>1. ASSUME NEW ch \in Channels, StartProbe(ch) PROVE Types'
  <2>1. job' \in Job
    BY <1>c, <1>1 DEF StartProbe, Job, ProbeJob
  <2> QED BY <1>0, <1>1, <2>1 DEF StartProbe
<1>2. ASSUME NEW ch \in Channels, Expire(ch) PROVE Types'
  BY <1>0, <1>2 DEF Expire
<1>3. ASSUME NEW ch \in Channels, NEW n \in 1 .. MaxProbes, NEW c \in Certs, Submit(ch, n, c) PROVE Types'
  <2>1. job' \in Job
    <3>1. CASE job' = job
      BY <1>0, <3>1
    <3>2. CASE job' # job
      <4>1. session[ch] # None /\ job' = [at |-> "check", ch |-> ch, s |-> session[ch], c |-> c]
        BY <1>3, <3>2 DEF Submit
      <4>2. session[ch] \in Session
        BY <1>e, <4>1
      <4> QED BY <4>1, <4>2 DEF Job, CheckJob
    <3> QED BY <3>1, <3>2
  <2>2. session' \in [Channels -> {None} \cup Session]
    BY <1>0, <1>3 DEF Submit
  <2> QED BY <1>0, <1>3, <2>1, <2>2 DEF Submit
<1>4. ASSUME NEW ch \in Channels, NEW o \in Origins, Save(ch, o) PROVE Types'
  BY <1>0, <1>d, <1>4 DEF Save
<1>5. ASSUME NEW o \in Origins, NEW c \in Certs, Renew(o, c) PROVE Types'
  BY <1>0, <1>a, <1>5 DEF Renew
<1>6. CASE ReadTarget
  <2>1. job' \in Job
    BY <1>0, <1>6, JobOfKind DEF ReadTarget, Job, ProbeJob
  <2> QED BY <1>0, <1>6, <2>1 DEF ReadTarget
<1>7. CASE ClearSession
  <2>1. job' \in Job
    BY <1>0, <1>7, JobOfKind DEF ClearSession, Job, ProbeJob
  <2>2. session' \in [Channels -> {None} \cup Session]
    BY <1>0, <1>7 DEF ClearSession
  <2> QED BY <1>0, <1>7, <2>1, <2>2 DEF ClearSession
<1>8. CASE Probe
  <2>1. job' \in Job
    BY <1>0, <1>8, JobOfKind DEF Probe, Job, ProbeJob
  <2> QED BY <1>0, <1>8, <2>1 DEF Probe
<1>9. CASE Keep
  <2>1. job' \in Job
    BY <1>9 DEF Keep, Job
  <2>2. nonces < MaxProbes /\ job.ch \in Channels /\ job.gen \in Nat /\ job.origin \in Origins /\ job.chain \in Certs
    BY <1>0, <1>9, JobOfKind DEF Keep, IInv, Timely
  <2>3. session' \in [Channels -> {None} \cup Session]
    <3>1. [nonce |-> nonces + 1, gen |-> job.gen, origin |-> job.origin, chain |-> job.chain] \in Session
      BY <1>c, <2>2 DEF Session
    <3> QED BY <1>0, <1>9, <3>1 DEF Keep
  <2> QED BY <1>0, <1>b, <1>9, <2>1, <2>2, <2>3 DEF Keep
<1>10. CASE Check
  <2>0. job \in CheckJob /\ job.s \in Session
    BY <1>0, <1>10, JobOfKind DEF Check, CheckJob
  <2>1. job' \in Job
    <3>1. CASE job' = NoJob
      BY <3>1 DEF Job
    <3>2. CASE job' # NoJob
      <4>1. BindSlot(job.s.origin) # 0 /\ CertSlot(job.c) # 0
        BY <1>10, <3>2 DEF Check
      <4>2. BindSlot(job.s.origin) \in BindSlots /\ CertSlot(job.c) \in CertSlots
        BY <1>0, <4>1, BindSlotFound, CertSlotFound
      <4>3. job' = [at |-> IF Held(job.c) = {} THEN "cert" ELSE "bind", ch |-> job.ch, o |-> job.s.origin,
                    c |-> job.c, gen |-> job.s.gen, slot |-> CertSlot(job.c), bslot |-> BindSlot(job.s.origin)]
        BY <1>10, <3>2 DEF Check
      <4> QED BY <2>0, <4>2, <4>3 DEF Job, StoreJob, CheckJob, Session
    <3> QED BY <3>1, <3>2
  <2> QED BY <1>0, <1>10, <2>1 DEF Check
<1>11. CASE StageCert
  <2>1. job' \in Job /\ job \in StoreJob
    BY <1>0, <1>11, JobOfKind DEF StageCert, Job, StoreJob
  <2>2. cert' \in [CertSlots -> {None} \cup Cert]
    <3>1. [c |-> job.c] \in Cert
      BY <2>1 DEF StoreJob, Cert
    <3> QED BY <1>0, <1>11, <3>1 DEF StageCert
  <2>3. faults' \in 0 .. MaxFaults
    BY <1>0, <1>a, <1>11 DEF StageCert
  <2> QED BY <1>0, <1>11, <2>1, <2>2, <2>3 DEF StageCert
<1>12. CASE Bind
  <2>1. job' \in Job /\ job \in StoreJob
    BY <1>0, <1>12, JobOfKind DEF Bind, Job, StoreJob
  <2>2. bind' \in [BindSlots -> {None} \cup Binding]
    <3>1. [origin |-> job.o, cert |-> job.c] \in Binding
      BY <2>1 DEF StoreJob, Binding
    <3> QED BY <1>0, <1>12, <3>1 DEF Bind
  <2>3. faults' \in 0 .. MaxFaults
    BY <1>0, <1>a, <1>12 DEF Bind
  <2> QED BY <1>0, <1>12, <2>1, <2>2, <2>3 DEF Bind
<1>13. CASE Collect
  <2>1. job' \in Job
    BY <1>0, <1>13, JobOfKind DEF Collect, Job, StoreJob
  <2>2. cert' \in [CertSlots -> {None} \cup Cert]
    BY <1>0, <1>13 DEF Collect
  <2> QED BY <1>0, <1>13, <2>1, <2>2 DEF Collect
<1>14. CASE Done
  BY <1>0, <1>14 DEF Done, Job
<1>15. CASE PowerCut
  BY <1>0, <1>a, <1>15 DEF PowerCut, Job
<1> QED
  BY <1>1, <1>2, <1>3, <1>4, <1>5, <1>6, <1>7, <1>8, <1>9, <1>10, <1>11, <1>12, <1>13, <1>14, <1>15 DEF Next

\* What Timely says of a job at a stage, with the types it has there.
LEMMA TimelyKept ==
    ASSUME CaAssumption, IInv, Next
    PROVE  Timely'
<1>0. /\ Types /\ Timely /\ job \in Job
      /\ generation \in Nat /\ nonces \in Nat /\ target \in [Channels -> Origins]
  <2>1. Types /\ Timely
    BY DEF IInv
  <2>2. MaxSaves \in Nat /\ MaxProbes \in Nat /\ generation \in 1 .. MaxSaves + 1 /\ nonces \in 0 .. MaxProbes
    BY <2>1 DEF Types, CaAssumption
  <2>3. generation \in Nat /\ nonces \in Nat
    BY <2>2
  <2> QED BY <2>1, <2>3 DEF Types
<1>s. \A ch \in Channels : session[ch] # None =>
         session[ch] \in Session /\ session[ch].gen \in Nat /\ session[ch].nonce \in Nat
  BY <1>0 DEF Types, Session
<1>1. ASSUME NEW ch \in Channels, StartProbe(ch) PROVE Timely'
  BY <1>0, <1>s, <1>1 DEF StartProbe, Timely, Current
<1>2. ASSUME NEW ch \in Channels, Expire(ch) PROVE Timely'
  <2>1. \A c \in Channels : session'[c] # None => session'[c] = session[c]
    BY <1>0, <1>2 DEF Expire, Types
  <2> QED BY <1>0, <1>2, <2>1 DEF Expire, Timely, Current
<1>3. ASSUME NEW ch \in Channels, NEW n \in 1 .. MaxProbes, NEW c \in Certs, Submit(ch, n, c) PROVE Timely'
  <2>1. \A k \in Channels : session'[k] # None => session'[k] = session[k]
    BY <1>0, <1>3 DEF Submit, Types
  <2>2. UNCHANGED <<generation, target, nonces>> /\ job = NoJob
    BY <1>3 DEF Submit
  <2>3. \/ job' = NoJob
        \/ session[ch] # None /\ job' = [at |-> "check", ch |-> ch, s |-> session[ch], c |-> c]
    BY <1>3 DEF Submit
  <2>4. Current(session[ch].gen, ch, session[ch].origin) \/ session[ch] = None
    BY <1>0 DEF Timely
  <2> QED BY <1>0, <2>1, <2>2, <2>3, <2>4 DEF Timely, Current, NoJob
<1>4. ASSUME NEW ch \in Channels, NEW o \in Origins, Save(ch, o) PROVE Timely'
  <2>1. generation' = generation + 1 /\ UNCHANGED <<session, job, nonces>>
    BY <1>4 DEF Save
  <2>2. \A g \in Nat : g <= generation => g <= generation' /\ g # generation'
    BY <1>0, <2>1
  <2>3. /\ job.at \in {"target", "cleared", "probe", "keep", "cert", "bind", "gc", "done"} => job.gen \in Nat
        /\ job.at = "check" => job.s.gen \in Nat
    BY <1>0, JobOfKind DEF CheckJob, StoreJob, Session
  <2> QED BY <1>0, <1>s, <2>1, <2>2, <2>3 DEF Timely, Current
<1>5. ASSUME NEW o \in Origins, NEW c \in Certs, Renew(o, c) PROVE Timely'
  BY <1>0, <1>5 DEF Renew, Timely, Current
<1>6. CASE ReadTarget
  <2>1. /\ UNCHANGED <<generation, target, nonces, session>> /\ job.at = "target" /\ job.gen <= generation /\ nonces < MaxProbes
        /\ job' = [at |-> "cleared", ch |-> job.ch, gen |-> job.gen, origin |-> target[job.ch]]
    BY <1>0, <1>6 DEF ReadTarget, Timely
  <2> QED BY <1>0, <2>1 DEF Timely, Current
<1>7. CASE ClearSession
  <2>1. /\ UNCHANGED <<generation, target, nonces>> /\ job.at = "cleared"
        /\ job' = NoJob \/ job' = [job EXCEPT !.at = "probe"]
    BY <1>7 DEF ClearSession
  <2>2. \A k \in Channels : session'[k] # None => session'[k] = session[k]
    BY <1>0, <1>7 DEF ClearSession, Types
  <2>3. job \in [at : {"cleared", "probe"}, ch : Channels, gen : Nat, origin : Origins]
    BY <1>0, <2>1, JobOfKind
  <2>4. /\ nonces < MaxProbes
        /\ Current(job.gen, job.ch, job.origin)
    BY <1>0, <2>1 DEF Timely
  <2>5. \/ job' = NoJob
        \/ job'.at = "probe" /\ job'.ch = job.ch /\ job'.gen = job.gen /\ job'.origin = job.origin
    BY <2>1, <2>3
  <2> QED BY <1>0, <2>1, <2>2, <2>4, <2>5 DEF Timely, Current, NoJob
<1>8. CASE Probe
  <2>1. /\ UNCHANGED <<generation, target, nonces, session>> /\ job.at = "probe"
        /\ \/ job' = NoJob
           \/ job' = [at |-> "keep", ch |-> job.ch, gen |-> job.gen, origin |-> job.origin, chain |-> issuer[job.origin]]
    BY <1>8 DEF Probe
  <2> QED BY <1>0, <2>1 DEF Timely, Current, NoJob
<1>9. CASE Keep
  <2>1. /\ UNCHANGED <<generation, target>> /\ job.at = "keep" /\ job' = NoJob
        /\ \/ UNCHANGED <<nonces, session>>
           \/ /\ nonces' = nonces + 1
              /\ session' = [session EXCEPT ![job.ch] = [nonce |-> nonces + 1, gen |-> job.gen,
                                                         origin |-> job.origin, chain |-> job.chain]]
    BY <1>9 DEF Keep
  <2>2. Current(job.gen, job.ch, job.origin)
    BY <1>0, <2>1 DEF Timely
  <2>3. \A k \in Channels : session'[k] # None =>
           \/ session'[k] = session[k]
           \/ /\ k = job.ch /\ nonces' = nonces + 1
              /\ session'[k].nonce = nonces + 1 /\ session'[k].gen = job.gen /\ session'[k].origin = job.origin
    BY <1>0, <2>1 DEF Types
  <2>4. nonces <= nonces' /\ nonces' \in Nat
    BY <1>0, <2>1
  <2> DEFINE Fresh(k) == /\ session'[k].gen <= generation'
                         /\ session'[k].gen = generation' => target'[k] = session'[k].origin
  <2>5. \A k \in Channels : session'[k] # None =>
           Fresh(k) /\ session'[k].nonce \in 1 .. nonces'
    <3> SUFFICES ASSUME NEW k \in Channels, session'[k] # None
                 PROVE  Fresh(k) /\ session'[k].nonce \in 1 .. nonces'
      OBVIOUS
    <3>1. CASE session'[k] = session[k]
      <4>1. Current(session[k].gen, k, session[k].origin) /\ session[k].nonce \in 1 .. nonces
        BY <1>0, <3>1 DEF Timely
      <4>2. session[k].nonce \in 1 .. nonces'
        BY <1>0, <2>4, <4>1
      <4> QED BY <2>1, <3>1, <4>1, <4>2 DEF Current
    <3>2. CASE session'[k] # session[k]
      <4>1. /\ k = job.ch /\ nonces' = nonces + 1
            /\ session'[k].nonce = nonces + 1 /\ session'[k].gen = job.gen /\ session'[k].origin = job.origin
        BY <2>3, <3>2
      <4>2. session'[k].nonce \in 1 .. nonces'
        BY <1>0, <4>1
      <4> QED BY <2>1, <2>2, <4>1, <4>2 DEF Current
    <3> QED BY <3>1, <3>2
  <2> QED BY <2>1, <2>5 DEF Timely, Current, NoJob
<1>10. CASE Check
  <2>1. UNCHANGED <<generation, target, nonces, session>> /\ job.at = "check"
    BY <1>10 DEF Check
  <2>2. Current(job.s.gen, job.ch, job.s.origin)
    BY <1>0, <2>1 DEF Timely
  <2>3. \/ job' = NoJob
        \/ job'.at \in {"cert", "bind"} /\ job'.ch = job.ch /\ job'.gen = job.s.gen /\ job'.o = job.s.origin
    <3>1. \/ job' = NoJob
          \/ job' = [at |-> IF Held(job.c) = {} THEN "cert" ELSE "bind", ch |-> job.ch, o |-> job.s.origin,
                     c |-> job.c, gen |-> job.s.gen, slot |-> CertSlot(job.c), bslot |-> BindSlot(job.s.origin)]
      BY <1>10 DEF Check
    <3> QED BY <3>1
  <2> QED BY <1>0, <2>1, <2>2, <2>3 DEF Timely, Current, NoJob
<1>11. CASE StageCert \/ Bind \/ Collect \/ Done
  <2>1. UNCHANGED <<generation, target, nonces, session>> /\ job.at \in {"cert", "bind", "gc", "done"}
    BY <1>11 DEF StageCert, Bind, Collect, Done
  <2>2. job \in StoreJob
    BY <1>0, <2>1, JobOfKind
  <2>3. \/ job' = NoJob \/ job' = job
        \/ \E a \in {"bind", "gc", "done"} : job' = [job EXCEPT !.at = a]
    BY <1>11 DEF StageCert, Bind, Collect, Done
  <2>4. \/ job' = NoJob
        \/ job'.at \in {"cert", "bind", "gc", "done"} /\ job'.ch = job.ch /\ job'.gen = job.gen /\ job'.o = job.o
    BY <2>1, <2>2, <2>3 DEF StoreJob
  <2>5. Current(job.gen, job.ch, job.o)
    BY <1>0, <2>1 DEF Timely
  <2> QED BY <1>0, <2>1, <2>4, <2>5 DEF Timely, Current, NoJob
<1>12. CASE PowerCut
  BY <1>0, <1>12 DEF PowerCut, Timely, NoJob
<1> QED
  BY <1>1, <1>2, <1>3, <1>4, <1>5, <1>6, <1>7, <1>8, <1>9, <1>10, <1>11, <1>12 DEF Next

\* A step that leaves the store alone, and the job away from it, keeps all that
\* is said of them.
StoreGood == OneBinding /\ Backed /\ OneCopy /\ BoundVerified /\ Working
LEMMA QuietKeeps ==
    ASSUME IInv, UNCHANGED <<cert, bind>>, verified \subseteq verified',
           job' = job \/ job'.at \notin {"cert", "bind", "gc", "done"}
    PROVE  StoreGood'
<1>1. OneBinding' /\ Backed' /\ OneCopy' /\ BoundVerified'
  BY DEF IInv, OneBinding, Backed, OneCopy, BoundVerified, Held
<1>2. Working'
  BY DEF IInv, Working, Held
<1> QED BY <1>1, <1>2 DEF StoreGood

\* The certificate goes to a slot that no binding needs, and is not yet stored.
LEMMA StageKeeps ==
    ASSUME CaAssumption, IInv, StageCert
    PROVE  StoreGood'
<1>1. /\ job.at = "cert" /\ job \in StoreJob /\ UNCHANGED <<bind, verified>>
      /\ cert \in [CertSlots -> {None} \cup Cert]
      /\ Held(job.c) = {} /\ <<job.o, job.c>> \in verified
      /\ \A b \in BindSlots : bind[b] # None => cert[job.slot] # [c |-> bind[b].cert]
      /\ \A b \in BindSlots : bind[b] # None /\ bind[b].origin = job.o => b = job.bslot
  <2>1. job.at = "cert" /\ UNCHANGED <<bind, verified>>
    BY DEF StageCert
  <2> QED BY <2>1, JobOfKind DEF IInv, Types, Working
<1>2. job.slot \in CertSlots
  BY <1>1 DEF StoreJob
<1>3. \/ cert' = [cert EXCEPT ![job.slot] = [c |-> job.c]] /\ job' = [job EXCEPT !.at = "bind"]
      \/ cert' = [cert EXCEPT ![job.slot] = None] /\ job' = NoJob
  BY DEF StageCert
<1>4. OneBinding' /\ BoundVerified'
  BY <1>1 DEF IInv, OneBinding, BoundVerified
<1>5. Backed'
  <2> SUFFICES ASSUME NEW b \in BindSlots, bind[b] # None
               PROVE  \E s \in CertSlots : cert'[s] = [c |-> bind[b].cert]
    BY <1>1 DEF Backed, Held
  <2>1. PICK s \in CertSlots : cert[s] = [c |-> bind[b].cert]
    BY DEF IInv, Backed, Held
  <2>2. s # job.slot
    BY <1>1, <2>1
  <2> QED BY <1>1, <1>2, <1>3, <2>1, <2>2
<1>6. OneCopy'
  <2>1. \A s \in CertSlots : cert[s] # [c |-> job.c]
    BY <1>1 DEF Held
  <2>2. \A s \in CertSlots \ {job.slot} : cert'[s] = cert[s]
    BY <1>1, <1>3
  <2>3. cert'[job.slot] \in {None, [c |-> job.c]}
    BY <1>1, <1>2, <1>3
  <2> QED BY <2>1, <2>2, <2>3 DEF IInv, OneCopy
<1>7. Working'
  <2>1. CASE job' = NoJob
    BY <2>1 DEF Working, NoJob
  <2>2. CASE /\ cert' = [cert EXCEPT ![job.slot] = [c |-> job.c]]
             /\ job' = [job EXCEPT !.at = "bind"]
    <3>1. job'.at = "bind" /\ job'.o = job.o /\ job'.c = job.c /\ job'.bslot = job.bslot
      BY <1>1, <2>2 DEF StoreJob
    <3>2. cert'[job.slot] = [c |-> job.c]
      BY <1>1, <1>2, <2>2
    <3> QED BY <1>1, <1>2, <3>1, <3>2 DEF Working, Held
  <2> QED BY <1>3, <2>1, <2>2
<1> QED BY <1>4, <1>5, <1>6, <1>7 DEF StoreGood

\* The binding of an origin goes over its own or into a free slot, and its
\* certificate is there.
LEMMA BindKeeps ==
    ASSUME CaAssumption, IInv, Bind
    PROVE  StoreGood'
<1>1. /\ job.at = "bind" /\ job \in StoreJob /\ UNCHANGED <<cert, verified>>
      /\ bind \in [BindSlots -> {None} \cup Binding]
      /\ Held(job.c) # {} /\ <<job.o, job.c>> \in verified
      /\ \A b \in BindSlots : bind[b] # None /\ bind[b].origin = job.o => b = job.bslot
  <2>1. job.at = "bind" /\ UNCHANGED <<cert, verified>>
    BY DEF Bind
  <2> QED BY <2>1, JobOfKind DEF IInv, Types, Working
<1>2. CASE job' = NoJob /\ UNCHANGED bind
  BY <1>1, <1>2, QuietKeeps DEF NoJob
<1>3. CASE /\ bind' = [bind EXCEPT ![job.bslot] = [origin |-> job.o, cert |-> job.c]]
           /\ job' = [job EXCEPT !.at = "gc"]
  <2>1. /\ job.bslot \in BindSlots
        /\ bind'[job.bslot] = [origin |-> job.o, cert |-> job.c]
        /\ \A b \in BindSlots \ {job.bslot} : bind'[b] = bind[b]
    BY <1>1, <1>3 DEF StoreJob
  <2>2. OneBinding'
    BY <1>1, <2>1 DEF IInv, OneBinding
  <2>3. Backed'
    BY <1>1, <2>1 DEF IInv, Backed, Held
  <2>4. OneCopy'
    BY <1>1 DEF IInv, OneCopy
  <2>5. BoundVerified'
    BY <1>1, <2>1 DEF IInv, BoundVerified
  <2>6. job'.at = "gc" /\ job'.o = job.o /\ job'.c = job.c /\ job'.bslot = job.bslot
    BY <1>1, <1>3 DEF StoreJob
  <2>7. Working'
    BY <2>1, <2>6 DEF Working
  <2> QED BY <2>2, <2>3, <2>4, <2>5, <2>7 DEF StoreGood
<1> QED BY <1>2, <1>3 DEF Bind

\* Only a certificate that no binding needs is erased.
LEMMA CollectKeeps ==
    ASSUME CaAssumption, IInv, Collect
    PROVE  StoreGood'
<1>1. /\ job.at = "gc" /\ job \in StoreJob /\ UNCHANGED <<bind, verified>>
      /\ cert \in [CertSlots -> {None} \cup Cert]
      /\ bind[job.bslot] = [origin |-> job.o, cert |-> job.c]
  <2>1. job.at = "gc" /\ UNCHANGED <<bind, verified>>
    BY DEF Collect
  <2> QED BY <2>1, JobOfKind DEF IInv, Types, Working
<1>2. \/ UNCHANGED cert
      \/ \E s \in Unreferenced : cert' = [cert EXCEPT ![s] = None]
  BY DEF Collect
<1>3. OneBinding' /\ BoundVerified'
  BY <1>1 DEF IInv, OneBinding, BoundVerified
<1>4. Backed' /\ OneCopy'
  <2>1. CASE UNCHANGED cert
    BY <1>1, <2>1 DEF IInv, Backed, OneCopy, Held
  <2>2. ASSUME NEW s \in Unreferenced, cert' = [cert EXCEPT ![s] = None]
        PROVE  Backed' /\ OneCopy'
    <3>1. /\ s \in CertSlots /\ cert'[s] = None
          /\ \A t \in CertSlots \ {s} : cert'[t] = cert[t]
      BY <1>1, <2>2 DEF Unreferenced
    <3>2. OneCopy'
      BY <3>1 DEF IInv, OneCopy
    <3>3. ASSUME NEW b \in BindSlots, bind[b] # None
          PROVE  \E t \in CertSlots : cert'[t] = [c |-> bind[b].cert]
      <4>1. PICK t \in CertSlots : cert[t] = [c |-> bind[b].cert]
        BY <3>3 DEF IInv, Backed, Held
      <4>2. t # s
        BY <3>3, <4>1 DEF Unreferenced, Referenced
      <4> QED BY <3>1, <4>1, <4>2
    <3> QED BY <1>1, <3>2, <3>3 DEF Backed, Held
  <2> QED BY <1>2, <2>1, <2>2
<1>5. Working'
  <2>1. job'.at \in {"gc", "done"} /\ job'.o = job.o /\ job'.c = job.c /\ job'.bslot = job.bslot
    BY <1>1 DEF Collect, StoreJob
  <2> QED BY <1>1, <2>1 DEF Working
<1> QED BY <1>3, <1>4, <1>5 DEF StoreGood

\* What is stored was found in the chain, and the slots are the ones looked for.
LEMMA CheckKeeps ==
    ASSUME CaAssumption, IInv, Check
    PROVE  StoreGood'
<1> DEFINE o == job.s.origin
           New == [at |-> IF Held(job.c) = {} THEN "cert" ELSE "bind", ch |-> job.ch, o |-> o,
                   c |-> job.c, gen |-> job.s.gen, slot |-> CertSlot(job.c), bslot |-> BindSlot(o)]
<1>1. /\ UNCHANGED <<cert, bind>> /\ verified \subseteq verified'
      /\ \/ job' = NoJob
         \/ job' = New /\ job.s.chain = job.c /\ BindSlot(o) # 0 /\ CertSlot(job.c) # 0
  <2>1. UNCHANGED <<cert, bind>> /\ verified \subseteq verified'
    BY DEF Check
  <2>2. \/ job' = NoJob
        \/ job' = New /\ Issued(job.s, job.c) /\ BindSlot(o) # 0 /\ CertSlot(job.c) # 0
    BY DEF Check
  <2> QED BY <2>1, <2>2 DEF Issued
<1>2. CASE job' = NoJob
  BY <1>1, <1>2, QuietKeeps DEF NoJob
<1>3. CASE job' = New /\ job.s.chain = job.c /\ BindSlot(o) # 0 /\ CertSlot(job.c) # 0
  <2>1. OneBinding' /\ Backed' /\ OneCopy' /\ BoundVerified'
    BY <1>1 DEF IInv, OneBinding, Backed, OneCopy, BoundVerified, Held
  <2>2. <<o, job.c>> \in verified'
    BY <1>3 DEF Check
  <2>3. Types
    BY DEF IInv
  <2>4. \A b \in BindSlots : bind[b] # None /\ bind[b].origin = o => b = BindSlot(o)
    <3>1. Bound(o) # {} => BindSlot(o) \in Bound(o)
      BY <1>3, <2>3, BindSlotFound
    <3> QED BY <3>1 DEF Bound, IInv, OneBinding
  <2>5. Held(job.c) = {} =>
           \A b \in BindSlots : bind[b] # None => cert[CertSlot(job.c)] # [c |-> bind[b].cert]
    <3> SUFFICES ASSUME Held(job.c) = {}, NEW b \in BindSlots, bind[b] # None,
                        cert[CertSlot(job.c)] = [c |-> bind[b].cert]
                 PROVE  FALSE
      OBVIOUS
    <3>1. CertSlot(job.c) \in Free(CertSlots, cert) \cup Unreferenced
      BY <1>3, <2>3, CertSlotFound
    <3>2. [c |-> bind[b].cert] # None
      BY DEF None
    <3> QED BY <3>1, <3>2 DEF Free, Unreferenced, Referenced
  <2>6. /\ \/ job'.at = "cert" /\ Held(job.c) = {}
           \/ job'.at = "bind" /\ Held(job.c) # {}
        /\ job'.o = o /\ job'.c = job.c /\ job'.slot = CertSlot(job.c) /\ job'.bslot = BindSlot(o)
    <3>1. /\ job'.at = IF Held(job.c) = {} THEN "cert" ELSE "bind"
          /\ job'.o = o /\ job'.c = job.c /\ job'.slot = CertSlot(job.c) /\ job'.bslot = BindSlot(o)
      BY <1>3
    <3> QED BY <3>1
  <2> HIDE DEF o, New
  <2>7. Working'
    BY <1>1, <2>2, <2>4, <2>5, <2>6 DEF Working, Held
  <2> QED BY <2>1, <2>7 DEF StoreGood
<1> QED BY <1>1, <1>2, <1>3

LEMMA InvInitial ==
    ASSUME CaAssumption, Init
    PROVE  IInv
<1>1. Types
  <2>1. generation \in 1 .. MaxSaves + 1 /\ nonces \in 0 .. MaxProbes /\ faults \in 0 .. MaxFaults
    <3>1. MaxProbes \in Nat /\ MaxSaves \in Nat /\ MaxFaults \in Nat
      BY DEF CaAssumption
    <3>2. generation = 1 /\ nonces = 0 /\ faults = 0
      BY DEF Init
    <3> QED BY <3>1, <3>2
  <2> QED BY <2>1 DEF Init, Types, Job
<1>2. Timely /\ Working
  BY DEF Init, Timely, Working, NoJob
<1>3. OneBinding /\ Backed /\ OneCopy /\ BoundVerified
  BY DEF Init, OneBinding, Backed, OneCopy, BoundVerified
<1> QED BY <1>1, <1>2, <1>3 DEF IInv

LEMMA InvKept ==
    ASSUME CaAssumption, IInv, [Next]_vars
    PROVE  IInv'
<1>1. CASE Next
  <2>1. Types' /\ Timely'
    BY <1>1, TypesKept, TimelyKept
  <2>2. StoreGood'
    <3>1. ASSUME NEW ch \in Channels, StartProbe(ch) \/ Expire(ch) PROVE StoreGood'
      BY <3>1, QuietKeeps DEF StartProbe, Expire
    <3>2. ASSUME NEW ch \in Channels, NEW n \in 1 .. MaxProbes, NEW c \in Certs, Submit(ch, n, c)
          PROVE  StoreGood'
      <4>1. UNCHANGED <<cert, bind, verified>>
        BY <3>2 DEF Submit
      <4>2. job' = job \/ job' = [at |-> "check", ch |-> ch, s |-> session[ch], c |-> c]
        BY <3>2 DEF Submit
      <4>3. job' = job \/ job'.at = "check"
        BY <4>2
      <4> QED BY <4>1, <4>3, QuietKeeps
    <3>3. ASSUME NEW ch \in Channels, NEW o \in Origins, Save(ch, o) PROVE StoreGood'
      BY <3>3, QuietKeeps DEF Save
    <3>4. ASSUME NEW o \in Origins, NEW c \in Certs, Renew(o, c) PROVE StoreGood'
      BY <3>4, QuietKeeps DEF Renew
    <3>5. CASE ReadTarget \/ Probe
      BY <3>5, QuietKeeps DEF ReadTarget, Probe, NoJob
    <3>6. CASE ClearSession
      <4>1. job \in [at : {"cleared", "probe"}, ch : Channels, gen : Nat, origin : Origins]
        BY <3>6, JobOfKind DEF ClearSession, IInv, Types
      <4>2. job'.at \notin {"cert", "bind", "gc", "done"}
        BY <3>6, <4>1 DEF ClearSession, NoJob
      <4> QED BY <3>6, <4>2, QuietKeeps DEF ClearSession
    <3>7. CASE Keep \/ Done \/ PowerCut
      BY <3>7, QuietKeeps DEF Keep, Done, PowerCut, NoJob
    <3>8. CASE Check
      BY <3>8, CheckKeeps
    <3>9. CASE StageCert
      BY <3>9, StageKeeps
    <3>10. CASE Bind
      BY <3>10, BindKeeps
    <3>11. CASE Collect
      BY <3>11, CollectKeeps
    <3> QED BY <1>1, <3>1, <3>2, <3>3, <3>4, <3>5, <3>6, <3>7, <3>8, <3>9, <3>10, <3>11 DEF Next
  <2> QED BY <2>1, <2>2 DEF IInv, StoreGood
<1>2. CASE UNCHANGED vars
  BY <1>2 DEF vars, IInv, Types, Timely, Current, OneBinding, Backed, OneCopy, BoundVerified, Working, Held
<1> QED BY <1>1, <1>2

-----------------------------------------------------------------------------
(* What follows.                                                           *)

LEMMA AtMostOne ==
    ASSUME NEW S, \A x, y \in S : x = y
    PROVE  Cardinality(S) <= 1
<1>1. CASE S = {}
  BY <1>1, FS_EmptySet
<1>2. CASE S # {}
  <2>1. PICK x \in S : S = {x}
    BY <1>2
  <2> QED BY <2>1, FS_Singleton
<1> QED BY <1>1, <1>2

\* An origin that is bound finds its certificate.
LEMMA BoundFound ==
    ASSUME CaAssumption, IInv, NEW b \in BindSlots, bind[b] # None
    PROVE  Lookup(bind[b].origin) = bind[b].cert
<1> DEFINE o == bind[b].origin
<1>1. Bound(o) = {b}
  BY DEF Bound, IInv, OneBinding
<1>2. Lowest({b}) = b
  <2>1. {b} \subseteq Nat /\ IsFiniteSet({b})
    BY FS_Singleton DEF CaAssumption
  <2> QED BY <2>1, LowestExists
<1>3. Held(bind[b].cert) # {}
  BY DEF IInv, Backed
<1> QED BY <1>1, <1>2, <1>3 DEF Lookup

LEMMA InvIsTrue ==
    ASSUME CaAssumption, IInv
    PROVE  CaTrue
<1>1. TypeOK
  BY DEF IInv, Types, Timely, TypeOK, Cert, Binding
<1>2. StoreWhole
  <2>1. ASSUME NEW o \in Origins
        PROVE  Cardinality(Bound(o)) <= 1 /\ Lookup(o) # "invalid"
    <3>1. Cardinality(Bound(o)) <= 1
      BY AtMostOne DEF Bound, IInv, OneBinding
    <3>2. CASE Bound(o) = {}
      BY <3>1, <3>2 DEF Lookup
    <3>3. CASE Bound(o) # {}
      <4>1. PICK b \in BindSlots : bind[b] # None /\ bind[b].origin = o
        BY <3>3 DEF Bound
      <4>2. Lookup(o) = bind[b].cert
        BY <4>1, BoundFound
      <4>3. bind[b].cert \in Certs
        BY <4>1 DEF IInv, Types, Binding
      <4> QED BY <3>1, <4>2, <4>3 DEF CaAssumption
    <3> QED BY <3>2, <3>3
  <2>2. ASSUME NEW c \in Certs
        PROVE  Cardinality(Held(c)) <= 1
    <3>1. [c |-> c] # None
      BY DEF None
    <3>2. \A s, t \in Held(c) : s = t
      BY <3>1 DEF Held, IInv, OneCopy
    <3> QED BY <3>2, AtMostOne
  <2> QED BY <2>1, <2>2 DEF StoreWhole
<1>3. BoundVerified
  BY DEF IInv
<1> QED BY <1>1, <1>2, <1>3 DEF CaTrue

\* idf_config_ca_install and idf_push_ca_install: whatever the order of the writes
\* and wherever power is cut, each origin has at most one binding, the certificate
\* of every binding is there, none is stored twice, and an origin is bound only to
\* an authority that issued a chain it showed.
THEOREM CaTrueAlways ==
    ASSUME CaAssumption
    PROVE  Spec => []CaTrue
<1>1. Init => IInv
  BY InvInitial
<1>2. IInv /\ [Next]_vars => IInv'
  BY InvKept
<1>3. IInv => CaTrue
  BY InvIsTrue
<1> QED BY <1>1, <1>2, <1>3, PTL DEF Spec

\* run_push_ca_install_job: at the step that tells the page of success, the channel
\* is still the one that was read, and what is bound for it is what was sent.
LEMMA InstalledStep ==
    ASSUME CaAssumption, IInv, Next
    PROVE  Installed
<1> SUFFICES ASSUME answer' # answer, answer' # None, answer'.ok
             PROVE  answer'.origin = target[answer'.ch] /\ Lookup(answer'.origin) = answer'.c
  BY DEF Installed
<1>1. Done /\ StillCurrent(job.gen)
  <2>1. ~\E ch \in Channels, n \in 1 .. MaxProbes, c \in Certs : Submit(ch, n, c)
    BY DEF Submit, Answer
  <2>2. ~Check /\ ~StageCert /\ ~Bind
    BY DEF Check, StageCert, Bind, Answer
  <2>3. Done
    BY <2>1, <2>2 DEF Next, StartProbe, Expire, Save, Renew, ReadTarget, ClearSession, Probe,
                      Keep, Collect, PowerCut
  <2> QED BY <2>3 DEF Done, Answer
<1>2. job.at = "done" /\ job \in StoreJob
  BY <1>1, JobOfKind DEF Done, IInv, Types
<1>3. answer'.ch = job.ch /\ answer'.origin = job.o /\ answer'.c = job.c
  BY <1>1 DEF Done, Answer
<1>4. target[job.ch] = job.o
  BY <1>1, <1>2 DEF IInv, Timely, Current, StillCurrent
<1>5. job.bslot \in BindSlots /\ bind[job.bslot] = [origin |-> job.o, cert |-> job.c]
  BY <1>2 DEF IInv, Working, StoreJob
<1>6. Lookup(job.o) = job.c
  <2>1. bind[job.bslot] # None
    BY <1>5 DEF None
  <2> QED BY <1>5, <2>1, BoundFound
<1> QED BY <1>3, <1>4, <1>6

\* run_push_ca_install_job: the page is told of success only when the channel, as
\* it is configured at that moment, finds the certificate that was sent.
THEOREM InstallsAlways ==
    ASSUME CaAssumption
    PROVE  Spec => Installs
<1>1. Init => IInv
  BY InvInitial
<1>2. IInv /\ [Next]_vars => IInv'
  BY InvKept
<1>3. IInv /\ [Next]_vars => [Installed]_vars
  BY InstalledStep
<1> QED BY <1>1, <1>2, <1>3, PTL DEF Spec, Installs
=============================================================================
