---------------------------- MODULE CaProvision ----------------------------
(* The authorities of the cellular push targets (idf_push_ca.cpp,            *)
(* idf_config_ca_store.cpp): a probe over WiFi keeps the chain a server      *)
(* showed for two minutes under a nonce; the page finds the authority that   *)
(* issued it and sends it back; the device checks it against the chain and   *)
(* stores certificate and binding of the origin in NVS, which may lose power *)
(* between any two writes.                                                   *)
EXTENDS Naturals, FiniteSets

CONSTANTS
    Origins,    \* servers
    Certs,      \* authorities
    Channels,   \* push channels, and the keepalive target
    CertSlots,  \* 1 .. IDF_CONFIG_CA_CERT_SLOTS
    BindSlots,  \* 1 .. IDF_CONFIG_CA_BINDING_SLOTS
    MaxProbes,  \* bound: probes of a behaviour
    MaxSaves,   \* bound: changes of the configuration
    MaxFaults   \* bound: power cuts, and writes that fail

\* Slots are numbers from 1, for 0 says that none was found; the verdicts of a
\* lookup are no certificates.
CaAssumption ==
    /\ CertSlots \subseteq Nat \ {0} /\ IsFiniteSet(CertSlots)
    /\ BindSlots \subseteq Nat \ {0} /\ IsFiniteSet(BindSlots)
    /\ {"not found", "invalid"} \cap Certs = {}
    /\ MaxProbes \in Nat /\ MaxSaves \in Nat /\ MaxFaults \in Nat

VARIABLES
    target,     \* origin of each channel in the configuration
    generation, \* idf_config_generation
    issuer,     \* the authority behind each server now
    cert,       \* NVS: the certificate in each slot, or None
    bind,       \* NVS: origin and certificate of each binding slot, or None
    session,    \* sessions: the probe kept for each channel, or None
    nonces,     \* probes that got a nonce (their number is it)
    job,        \* what the job worker is doing
    verified,   \* origins with authorities found in their chain (history)
    answer,     \* the last answer of an installation (history)
    faults

nvs == <<cert, bind>>
vars == <<target, generation, issuer, cert, bind, session, nonces, job, verified, answer, faults>>

None == [none |-> TRUE]
NoJob == [at |-> "idle"]

Init ==
    /\ target \in [Channels -> Origins] /\ generation = 1 /\ issuer \in [Origins -> Certs]
    /\ cert = [s \in CertSlots |-> None] /\ bind = [s \in BindSlots |-> None]
    /\ session = [c \in Channels |-> None] /\ nonces = 0 /\ job = NoJob
    /\ verified = {} /\ answer = None /\ faults = 0

-----------------------------------------------------------------------------
(* The store                                                                *)

Bound(o) == {b \in BindSlots : bind[b] # None /\ bind[b].origin = o}
Held(c) == {s \in CertSlots : cert[s] = [c |-> c]}
Referenced(c) == \E b \in BindSlots : bind[b] # None /\ bind[b].cert = c
Free(slots, v) == {s \in slots : v[s] = None}
Lowest(S) == CHOOSE s \in S : \A t \in S : s <= t
Unreferenced == {s \in CertSlots : cert[s] # None /\ ~Referenced(cert[s].c)}

\* idf_config_ca_lookup finds the binding and then the certificate.
Lookup(o) ==
    IF Bound(o) = {} THEN "not found"
    ELSE IF Held(bind[Lowest(Bound(o))].cert) = {} THEN "invalid" ELSE bind[Lowest(Bound(o))].cert

\* The slots an installation writes to, in the order the code looks for them.
FirstOf(choices) ==
    IF \A i \in DOMAIN choices : choices[i] = {} THEN 0
    ELSE LET i == CHOOSE k \in DOMAIN choices : choices[k] # {} /\ \A m \in DOMAIN choices : m < k => choices[m] = {}
         IN  Lowest(choices[i])
BindSlot(o) == FirstOf(<<Bound(o), Free(BindSlots, bind)>>)
AnyCertSlot(c) == FirstOf(<<Held(c), Free(CertSlots, cert), CertSlots>>)
CertSlot(c) == FirstOf(<<Held(c), Free(CertSlots, cert), Unreferenced>>)

-----------------------------------------------------------------------------
(* idf_push_ca_probe                                                        *)

\* The generation first: a change between the two reads is noticed.
StartProbe(ch) ==
    /\ job = NoJob /\ nonces < MaxProbes
    /\ job' = [at |-> "target", ch |-> ch, gen |-> generation]
    /\ UNCHANGED <<target, generation, issuer, cert, bind, session, nonces, verified, answer, faults>>
StillCurrentUnread(gen) == TRUE
StillCurrent(gen) == gen = generation
ReadTarget ==
    /\ job.at = "target"
    /\ job' = [at |-> "cleared", ch |-> job.ch, gen |-> job.gen, origin |-> target[job.ch]]
    /\ UNCHANGED <<target, generation, issuer, cert, bind, session, nonces, verified, answer, faults>>
ClearSession ==
    /\ job.at = "cleared"
    /\ IF StillCurrent(job.gen) THEN session' = [session EXCEPT ![job.ch] = None] /\ job' = [job EXCEPT !.at = "probe"]
       ELSE job' = NoJob /\ UNCHANGED session
    /\ UNCHANGED <<target, generation, issuer, cert, bind, nonces, verified, answer, faults>>
Probe ==
    /\ job.at = "probe"
    /\ job' \in {NoJob, [at |-> "keep", ch |-> job.ch, gen |-> job.gen, origin |-> job.origin, chain |-> issuer[job.origin]]}
    /\ UNCHANGED <<target, generation, issuer, cert, bind, session, nonces, verified, answer, faults>>
Keep ==
    /\ job.at = "keep" /\ job' = NoJob
    /\ IF StillCurrent(job.gen)
       THEN /\ nonces' = nonces + 1
            /\ session' = [session EXCEPT ![job.ch] = [nonce |-> nonces + 1, gen |-> job.gen,
                                                       origin |-> job.origin, chain |-> job.chain]]
       ELSE UNCHANGED <<nonces, session>>
    /\ UNCHANGED <<target, generation, issuer, cert, bind, verified, answer, faults>>

-----------------------------------------------------------------------------
(* idf_push_ca_install                                                      *)

Answer(ch, o, c, ok) == answer' = [ch |-> ch, origin |-> o, c |-> c, ok |-> ok, gen |-> generation]

\* The session goes to whoever brings its nonce, once.
Submit(ch, nonce, c) ==
    /\ job = NoJob /\ nonce \in 1 .. nonces
    /\ session' = [session EXCEPT ![ch] = None]
    /\ IF session[ch] # None /\ session[ch].nonce = nonce
       THEN job' = [at |-> "check", ch |-> ch, s |-> session[ch], c |-> c] /\ UNCHANGED answer
       ELSE Answer(ch, target[ch], c, FALSE) /\ UNCHANGED job
    /\ UNCHANGED <<target, generation, issuer, cert, bind, nonces, verified, faults>>

\* The configuration must be that of the probe, and the certificate the issuer
\* of the chain; then the slots are looked for, and the space.
AnyIssued(s, c) == TRUE
Issued(s, c) == s.chain = c
Check ==
    /\ job.at = "check"
    /\ LET o == job.s.origin
           ok == StillCurrent(job.s.gen) /\ Issued(job.s, job.c) /\ BindSlot(o) # 0 /\ CertSlot(job.c) # 0
       IN  /\ verified' = IF job.s.chain = job.c THEN verified \cup {<<o, job.c>>} ELSE verified
           /\ IF ok
              THEN /\ job' = [at |-> IF Held(job.c) = {} THEN "cert" ELSE "bind", ch |-> job.ch, o |-> o, c |-> job.c,
                              gen |-> job.s.gen, slot |-> CertSlot(job.c), bslot |-> BindSlot(o)]
                   /\ UNCHANGED answer
              ELSE job' = NoJob /\ Answer(job.ch, o, job.c, FALSE)
    /\ UNCHANGED <<target, generation, issuer, cert, bind, session, nonces, faults>>

\* Written, committed and read back; a slot that does not read back is erased.
StageCert ==
    /\ job.at = "cert"
    /\ \/ cert' = [cert EXCEPT ![job.slot] = [c |-> job.c]] /\ job' = [job EXCEPT !.at = "bind"]
          /\ UNCHANGED <<answer, faults>>
       \/ faults < MaxFaults /\ faults' = faults + 1
          /\ cert' = [cert EXCEPT ![job.slot] = None] /\ job' = NoJob /\ Answer(job.ch, job.o, job.c, FALSE)
    /\ UNCHANGED <<target, generation, issuer, bind, session, nonces, verified>>
Bind ==
    /\ job.at = "bind"
    /\ \/ bind' = [bind EXCEPT ![job.bslot] = [origin |-> job.o, cert |-> job.c]] /\ job' = [job EXCEPT !.at = "gc"]
          /\ UNCHANGED <<answer, faults>>
       \/ faults < MaxFaults /\ faults' = faults + 1
          /\ job' = NoJob /\ UNCHANGED bind /\ Answer(job.ch, job.o, job.c, FALSE)
    /\ UNCHANGED <<target, generation, issuer, cert, session, nonces, verified>>
\* gcUnreferenced erases one certificate after the other; one it cannot erase stays.
Collect ==
    /\ job.at = "gc"
    /\ \/ \E s \in Unreferenced : cert' = [cert EXCEPT ![s] = None] /\ UNCHANGED job
       \/ (Unreferenced = {} \/ faults < MaxFaults) /\ job' = [job EXCEPT !.at = "done"] /\ UNCHANGED cert
    /\ UNCHANGED <<target, generation, issuer, bind, session, nonces, verified, answer, faults>>
Done ==
    /\ job.at = "done" /\ job' = NoJob
    /\ Answer(job.ch, job.o, job.c, StillCurrent(job.gen))
    /\ UNCHANGED <<target, generation, issuer, cert, bind, session, nonces, verified, faults>>

-----------------------------------------------------------------------------
(* The rest of the device, and the servers                                  *)

Save(ch, o) ==
    /\ generation <= MaxSaves
    /\ target' = [target EXCEPT ![ch] = o] /\ generation' = generation + 1
    /\ UNCHANGED <<issuer, cert, bind, session, nonces, job, verified, answer, faults>>
Expire(ch) ==
    /\ session[ch] # None /\ session' = [session EXCEPT ![ch] = None]
    /\ UNCHANGED <<target, generation, issuer, cert, bind, nonces, job, verified, answer, faults>>
Renew(o, c) ==
    /\ faults < MaxFaults /\ faults' = faults + 1
    /\ issuer' = [issuer EXCEPT ![o] = c]
    /\ UNCHANGED <<target, generation, cert, bind, session, nonces, job, verified, answer>>
PowerCut ==
    /\ faults < MaxFaults /\ faults' = faults + 1
    /\ session' = [c \in Channels |-> None] /\ job' = NoJob /\ answer' = None
    /\ UNCHANGED <<target, generation, issuer, cert, bind, nonces, verified>>

Next ==
    \/ \E ch \in Channels :
        \/ StartProbe(ch) \/ Expire(ch)
        \/ \E n \in 1 .. MaxProbes, c \in Certs : Submit(ch, n, c)
        \/ \E o \in Origins : Save(ch, o)
    \/ \E o \in Origins, c \in Certs : Renew(o, c)
    \/ ReadTarget \/ ClearSession \/ Probe \/ Keep
    \/ Check \/ StageCert \/ Bind \/ Collect \/ Done \/ PowerCut

Spec == Init /\ [][Next]_vars

-----------------------------------------------------------------------------
(* Properties                                                               *)

(* The state stays in its types.                                            *)
TypeOK ==
    /\ target \in [Channels -> Origins] /\ generation \in 1 .. MaxSaves + 1 /\ nonces \in 0 .. MaxProbes
    /\ \A s \in CertSlots : cert[s] = None \/ cert[s].c \in Certs
    /\ \A b \in BindSlots : bind[b] = None \/ (bind[b].origin \in Origins /\ bind[b].cert \in Certs)
    /\ \A c \in Channels : session[c] = None \/ session[c].nonce \in 1 .. nonces
    /\ faults \in 0 .. MaxFaults

(* At every moment, and so after a power cut between any two writes, each    *)
(* origin has at most one binding, no certificate is stored twice, and the   *)
(* certificate of every binding is there: a target that could be reached     *)
(* stays so while another certificate is installed.                          *)
StoreWhole ==
    /\ \A o \in Origins : Cardinality(Bound(o)) <= 1 /\ Lookup(o) # "invalid"
    /\ \A c \in Certs : Cardinality(Held(c)) <= 1

(* An origin is only ever bound to an authority that issued a chain which    *)
(* this origin itself showed.                                                *)
BoundVerified == \A b \in BindSlots : bind[b] # None => <<bind[b].origin, bind[b].cert>> \in verified

(* The store of authorities is whole at every moment, and what it holds was  *)
(* checked against the server it is for.                                     *)
CaTrue == TypeOK /\ StoreWhole /\ BoundVerified

(* The page is told of success only when the channel, as it is configured at *)
(* that moment, finds the certificate that was sent.                         *)
Installed ==
    answer' # answer /\ answer' # None /\ answer'.ok =>
        answer'.origin = target[answer'.ch] /\ Lookup(answer'.origin) = answer'.c
Installs == [][Installed]_vars
=============================================================================
