---------------------------- MODULE PlaneProofs ----------------------------
(***************************************************************************)
(* Proofs about the control plane, for every number of slots, tokens,      *)
(* tenants and requests: tenants are isolated, the stores only go forward, *)
(* a policy family has one active version, the job stores stay bounded,    *)
(* the audit store holds the end of the log, and tokens expire in the      *)
(* order of registration.                                                  *)
(***************************************************************************)
EXTENDS ControlPlane, FiniteSetTheorems, TLAPS

\* The provers, in this order, and the seconds each may spend on a step; each
\* has a second, longer try.
USE ZenonT(30), SMTT(30), ZenonT(60), SMTT(60)

USE DEF jobVars

\* A slot: what is under way for a token of a tenant carries that token's
\* tenant and principal.
Carries(f) ==
  /\ f.token \in Tokens /\ TokenTenants[f.token] \in Tenants
  /\ f.request.tenant = TokenTenants[f.token]
  /\ f.request.principal = TokenPrincipals[f.token]

\* A slot holds a request under way, or none.
SlotOK(f) ==
  /\ f = [phase |-> f.phase, token |-> f.token, at |-> f.at, request |-> f.request]
  /\ f.phase \in {"idle", "sent", "admitted"} /\ f.at \in Nat
  /\ f.phase # "idle" => Carries(f)

\* Every slot does, and requests are counted.
FlightInv ==
  /\ service \in Services /\ time \in Nat /\ forwarded \in Nat
  /\ flight = [s \in Slots |-> flight[s]]
  /\ \A s \in Slots : SlotOK(flight[s])

\* A creation of a policy version brings a number of its own.
PolicyBodies ==
  service = "policy" => \A s \in Slots : LET b == flight[s].request.body IN
    flight[s].phase # "idle" /\ b.op = "createVersion" => b.fresh \in Nat
-----------------------------------------------------------------------------
(* Requests under way. *)

\* A free slot holds no request.
LEMMA IdleSlot == SlotOK(Idle) /\ Idle.phase = "idle"
BY DEF SlotOK, Idle

\* One slot changes.
LEMMA OneSlot ==
  ASSUME FlightInv, NEW slot \in Slots, NEW f, SlotOK(f), flight' = [flight EXCEPT ![slot] = f],
         time' = time, service' = service, forwarded' \in Nat
  PROVE  /\ FlightInv' /\ flight'[slot] = f
         /\ \A s \in Slots : s # slot => flight'[s] = flight[s]
<1>1. flight'[slot] = f /\ \A s \in Slots : s # slot => flight'[s] = flight[s]
  BY DEF FlightInv
<1>2. flight' = [s \in Slots |-> flight'[s]]
  BY DEF FlightInv
<1> QED BY <1>1, <1>2 DEF FlightInv

\* What Forward puts into the slot.
LEMMA ForwardSends ==
  ASSUME FlightInv, NEW slot \in Slots, NEW token \in Tokens, NEW claimed \in Tenants,
         NEW body \in Bodies, Forward(slot, token, claimed, body)
  PROVE  \E f : /\ SlotOK(f) /\ f.phase = "sent" /\ f.token = token
                /\ f.request.id = forwarded + 1 /\ f.request.body = body
                /\ flight' = [flight EXCEPT ![slot] = f]
<1> DEFINE R(e) == [method |-> e.method, family |-> e.family, rest |-> e.rest, body |-> body,
                    id |-> forwarded + 1, tenant |-> claimed, principal |-> "",
                    secret |-> "", signedAt |-> 0, signature |-> <<>>]
<1>0. PICK e \in Served : flight' = [flight EXCEPT ![slot] =
        [phase |-> "sent", token |-> token, at |-> 0,
         request |-> Forwarded(R(e), token, claimed, time)]]
  BY DEF Forward
<1>1. PICK q : q = Forwarded(R(e), token, claimed, time)
  OBVIOUS
<1>2. /\ q.tenant = TokenTenants[token] /\ q.principal = TokenPrincipals[token]
      /\ q.id = forwarded + 1 /\ q.body = body
  BY <1>1 DEF Forwarded, SignRequest
<1> HIDE DEF R
<1>3. PICK f : f = [phase |-> "sent", token |-> token, at |-> 0, request |-> q]
  OBVIOUS
<1>4. f.phase = "sent" /\ f.token = token /\ f.at = 0 /\ f.request = q
  BY <1>3
<1>5. TokenTenants[token] \in Tenants
  BY DEF Forward, Identified, Tenants
<1>6. Carries(f)
  BY <1>2, <1>4, <1>5 DEF Carries
<1>7. f = [phase |-> f.phase, token |-> f.token, at |-> f.at, request |-> f.request]
  BY <1>3, <1>4
<1>8. SlotOK(f)
  BY <1>4, <1>6, <1>7 DEF SlotOK
<1> QED BY <1>0, <1>1, <1>2, <1>3, <1>4, <1>8

\* What Admit makes of the slot.
LEMMA AdmitMarks ==
  ASSUME FlightInv, NEW slot \in Slots, Admit(slot)
  PROVE  \E f : /\ SlotOK(f) /\ f.phase = "admitted" /\ f.request = flight[slot].request
                /\ flight[slot].phase = "sent"
                /\ flight' = [flight EXCEPT ![slot] = f]
<1>0. SlotOK(flight[slot]) /\ time \in Nat /\ flight[slot].phase = "sent"
  BY DEF FlightInv, Admit
<1>1. PICK f : f = [phase |-> "admitted", token |-> flight[slot].token, at |-> time,
                    request |-> flight[slot].request]
  OBVIOUS
<1>2. /\ f.phase = "admitted" /\ f.token = flight[slot].token /\ f.at = time
      /\ f.request = flight[slot].request
  BY <1>1
<1>3. flight' = [flight EXCEPT ![slot] = f]
  <2>1. [[flight[slot] EXCEPT !.phase = "admitted"] EXCEPT !.at = time] = f
    <3>1. PICK p, t, a, q : flight[slot] = [phase |-> p, token |-> t, at |-> a, request |-> q]
      BY <1>0 DEF SlotOK
    <3>2. flight[slot].token = t /\ flight[slot].request = q
      BY <3>1
    <3>3. [[flight[slot] EXCEPT !.phase = "admitted"] EXCEPT !.at = time]
            = [phase |-> "admitted", token |-> t, at |-> time, request |-> q]
      <4>1. PICK g : g = [flight[slot] EXCEPT !.phase = "admitted"]
        OBVIOUS
      <4>2. g = [phase |-> "admitted", token |-> t, at |-> a, request |-> q]
        BY <3>1, <4>1
      <4>3. [g EXCEPT !.at = time] = [phase |-> "admitted", token |-> t, at |-> time, request |-> q]
        BY <4>2
      <4> QED BY <4>1, <4>3
    <3> QED BY <1>1, <3>2, <3>3
  <2> QED BY <2>1 DEF Admit, FlightInv
<1>4. f = [phase |-> f.phase, token |-> f.token, at |-> f.at, request |-> f.request]
  BY <1>1, <1>2
<1>5. SlotOK(f)
  BY <1>0, <1>2, <1>4 DEF SlotOK, Carries
<1> QED BY <1>0, <1>2, <1>3, <1>5
-----------------------------------------------------------------------------
(* The job stores. *)

\* A job has a manifest exactly when it succeeded.
JobOK(j) ==
  /\ j = [tenant |-> j.tenant, status |-> j.status, createdAt |-> j.createdAt,
          finishedAt |-> j.finishedAt, manifest |-> j.manifest]
  /\ j.status \in {"queued", "running", "succeeded", "failed"}
  /\ j.status = "succeeded" <=> j.manifest # NoManifest

\* A job's goroutine has yet to start the job or to end it.
RunnerOK(r) == r = [tenant |-> r.tenant, at |-> r.at] /\ r.at \in {"created", "executing"}

\* The map and the order of creation hold the same jobs.
OrderInv ==
  /\ order \in Seq(Nat) /\ IsInjective(order) /\ Len(order) <= MaxJobs
  /\ jobs = [i \in Range(order) |-> jobs[i]]
  /\ \A i \in DOMAIN jobs : JobOK(jobs[i])

\* The goroutine of a job that is still there is where the job's status says.
RunnerInv ==
  /\ runners = [i \in DOMAIN runners |-> runners[i]]
  /\ \A i \in DOMAIN runners : RunnerOK(runners[i])
  /\ \A i \in DOMAIN jobs \cap DOMAIN runners :
       /\ jobs[i].tenant = runners[i].tenant
       /\ jobs[i].status = IF runners[i].at = "created" THEN "queued" ELSE "running"

\* What is known of jobs and their goroutines.
JobsInv == OrderInv /\ RunnerInv

\* evictLocked after a new job: the order holds each job once, and fits.
LEMMA OrderKept ==
  ASSUME NEW s \in Seq(Nat), IsInjective(s), NEW id \in Nat, id \notin Range(s), Len(s) <= MaxJobs
  PROVE  LET all == Append(s, id)
             kept == IF Len(all) > MaxJobs THEN Tail(all) ELSE all
         IN  /\ kept \in Seq(Nat) /\ IsInjective(kept) /\ Len(kept) <= MaxJobs
             /\ Range(kept) \subseteq Range(s) \cup {id}
<1> DEFINE all == Append(s, id)
<1>0. MaxJobs \in Nat /\ Len(s) \in Nat /\ DOMAIN s = 1 .. Len(s)
  BY JobsAssumption
<1>1. /\ all \in Seq(Nat) /\ Len(all) = Len(s) + 1 /\ DOMAIN all = 1 .. Len(all)
      /\ \A i \in 1 .. Len(s) : all[i] = s[i]
      /\ all[Len(s) + 1] = id
  OBVIOUS
<1> HIDE DEF all
<1>2. \A i \in 1 .. Len(all) : i \in 1 .. Len(s) \/ i = Len(s) + 1
  BY <1>0, <1>1
<1>3. \A i \in 1 .. Len(s) : s[i] # id
  BY <1>0 DEF Range
<1>4. \A i, j \in 1 .. Len(all) : all[i] = all[j] => i = j
  <2> SUFFICES ASSUME NEW i \in 1 .. Len(all), NEW j \in 1 .. Len(all), all[i] = all[j]
               PROVE  i = j
    OBVIOUS
  <2>1. CASE i \in 1 .. Len(s) /\ j \in 1 .. Len(s)
    BY <1>0, <1>1, <2>1 DEF IsInjective
  <2>2. CASE i = Len(s) + 1 \/ j = Len(s) + 1
    BY <1>1, <1>2, <1>3, <2>2
  <2> QED BY <1>2, <2>1, <2>2
<1>5. Range(all) \subseteq Range(s) \cup {id}
  BY <1>0, <1>1, <1>2 DEF Range
<1>6. ASSUME Len(all) > MaxJobs
      PROVE  /\ Tail(all) \in Seq(Nat) /\ IsInjective(Tail(all)) /\ Len(Tail(all)) <= MaxJobs
             /\ Range(Tail(all)) \subseteq Range(s) \cup {id}
  <2> DEFINE t == Tail(all)
  <2>1. /\ t \in Seq(Nat) /\ Len(t) = Len(s) /\ DOMAIN t = 1 .. Len(s)
        /\ \A i \in 1 .. Len(s) : t[i] = all[i + 1] /\ i + 1 \in 1 .. Len(all)
    <3>1. all # <<>> /\ Len(all) \in Nat
      BY <1>0, <1>1
    <3> QED BY <1>0, <1>1, <3>1
  <2> HIDE DEF t
  <2>2. IsInjective(t)
    <3> SUFFICES ASSUME NEW i \in 1 .. Len(s), NEW j \in 1 .. Len(s), t[i] = t[j] PROVE i = j
      BY <2>1 DEF IsInjective
    <3>1. i + 1 = j + 1
      BY <1>4, <2>1
    <3> QED BY <1>0, <3>1
  <2>3. Range(t) \subseteq Range(all)
    <3> SUFFICES ASSUME NEW i \in 1 .. Len(s) PROVE t[i] \in Range(all)
      BY <2>1 DEF Range
    <3>1. t[i] = all[i + 1] /\ i + 1 \in DOMAIN all
      BY <1>1, <2>1
    <3> QED BY <3>1 DEF Range
  <2> QED BY <1>5, <2>1, <2>2, <2>3 DEF t
<1>7. ASSUME ~(Len(all) > MaxJobs)
      PROVE  IsInjective(all) /\ Len(all) <= MaxJobs
  <2>1. IsInjective(all)
    BY <1>1, <1>4 DEF IsInjective
  <2> QED BY <1>0, <1>1, <1>7, <2>1
<1> QED BY <1>1, <1>5, <1>6, <1>7 DEF all

\* Create and create.
LEMMA CreatedJob ==
  ASSUME OrderInv, NEW id \in Nat, id \notin DOMAIN jobs, NEW made, JobOK(made), Created(id, made)
  PROVE  /\ OrderInv'
         /\ DOMAIN jobs' \subseteq DOMAIN jobs \cup {id}
         /\ \A i \in DOMAIN jobs' : jobs'[i] = IF i = id THEN made ELSE jobs[i]
<1>0. DOMAIN jobs = Range(order)
  BY DEF OrderInv
<1>1. /\ order' \in Seq(Nat) /\ IsInjective(order') /\ Len(order') <= MaxJobs
      /\ Range(order') \subseteq Range(order) \cup {id}
  BY <1>0, OrderKept DEF OrderInv, Created
<1>2. jobs' = [i \in Range(order') |-> IF i = id THEN made ELSE jobs[i]]
  BY DEF Created
<1>3. /\ DOMAIN jobs' = Range(order')
      /\ \A i \in DOMAIN jobs' : jobs'[i] = IF i = id THEN made ELSE jobs[i]
  BY <1>2
<1>4. jobs' = [i \in Range(order') |-> jobs'[i]]
  BY <1>2
<1>5. \A i \in DOMAIN jobs' : JobOK(jobs'[i])
  BY <1>0, <1>1, <1>3 DEF OrderInv
<1> QED BY <1>0, <1>1, <1>3, <1>4, <1>5 DEF OrderInv

\* A job created by a request whose number neither a job nor a goroutine has; its
\* goroutine, if it gets one, is where it begins.
LEMMA CreateKeepsJobs ==
  ASSUME JobsInv, NEW id \in Nat, id \notin DOMAIN jobs, id \notin DOMAIN runners,
         NEW made, JobOK(made), Created(id, made),
         \/ runners' = runners
         \/ /\ runners' = Put(runners, id, [tenant |-> made.tenant, at |-> "created"])
            /\ made.status = "queued"
  PROVE  /\ JobsInv'
         /\ DOMAIN jobs' \subseteq DOMAIN jobs \cup {id}
         /\ DOMAIN runners' \subseteq DOMAIN runners \cup {id}
         /\ \A i \in DOMAIN jobs \cap DOMAIN jobs' : jobs'[i] = jobs[i]
         /\ id \in DOMAIN jobs' => jobs'[id] = made
<1>1. /\ OrderInv'
      /\ DOMAIN jobs' \subseteq DOMAIN jobs \cup {id}
      /\ \A i \in DOMAIN jobs' : jobs'[i] = IF i = id THEN made ELSE jobs[i]
  BY CreatedJob DEF JobsInv
<1>2. \A i \in DOMAIN jobs \cap DOMAIN jobs' : jobs'[i] = jobs[i]
  BY <1>1
<1>3. id \in DOMAIN jobs' => jobs'[id] = made
  BY <1>1
<1>4. /\ DOMAIN runners' \subseteq DOMAIN runners \cup {id}
      /\ runners' = [i \in DOMAIN runners' |-> runners'[i]]
      /\ \A i \in DOMAIN runners : i \in DOMAIN runners' /\ runners'[i] = runners[i]
      /\ id \in DOMAIN runners' => /\ runners'[id] = [tenant |-> made.tenant, at |-> "created"]
                                   /\ made.status = "queued"
  BY DEF Put, JobsInv, RunnerInv
<1>5. \A i \in DOMAIN runners' : RunnerOK(runners'[i])
  <2>1. RunnerOK([tenant |-> made.tenant, at |-> "created"])
    BY DEF RunnerOK
  <2> QED BY <1>4, <2>1 DEF JobsInv, RunnerInv
<1>6. ASSUME NEW i \in DOMAIN jobs' \cap DOMAIN runners'
      PROVE  /\ jobs'[i].tenant = runners'[i].tenant
             /\ jobs'[i].status = IF runners'[i].at = "created" THEN "queued" ELSE "running"
  <2>1. CASE i = id
    <3>1. /\ jobs'[i] = made /\ runners'[i] = [tenant |-> made.tenant, at |-> "created"]
          /\ made.status = "queued"
      BY <1>3, <1>4, <1>6, <2>1
    <3>2. runners'[i].tenant = made.tenant /\ runners'[i].at = "created"
      BY <3>1
    <3> QED BY <3>1, <3>2
  <2>2. CASE i # id
    <3>1. /\ i \in DOMAIN jobs \cap DOMAIN runners
          /\ jobs'[i] = jobs[i] /\ runners'[i] = runners[i]
      BY <1>1, <1>4, <2>2
    <3> QED BY <3>1 DEF JobsInv, RunnerInv
  <2> QED BY <2>1, <2>2
<1>7. RunnerInv'
  BY <1>4, <1>5, <1>6 DEF RunnerInv
<1> QED BY <1>1, <1>2, <1>3, <1>4, <1>7 DEF JobsInv

\* What a step may do to a job that was there before and after it.
JobForward(old, new) ==
  /\ <<old.status, new.status>> \in {<<"queued", "running">>, <<"running", "succeeded">>,
        <<"running", "failed">>} \cup {<<s, s>> : s \in {"queued", "running", "succeeded", "failed"}}
  /\ old.status \in {"succeeded", "failed"} => new = old
  /\ (new.status = "succeeded") <=> (new.manifest # NoManifest)

\* The goroutine marks its job, if it is still there: one that is queued or
\* running, with the status that comes next.
LEMMA MarkKeepsJobs ==
  ASSUME JobsInv, NEW id \in DOMAIN runners, NEW made, order' = order,
         jobs' = IF Found(runners[id].tenant, id) THEN [jobs EXCEPT ![id] = made] ELSE jobs,
         id \in DOMAIN jobs => /\ JobOK(made) /\ JobForward(jobs[id], made)
                               /\ made.tenant = jobs[id].tenant,
         \/ /\ runners' = [runners EXCEPT ![id].at = "executing"]
            /\ id \in DOMAIN jobs => made.status = "running"
         \/ Ended(id)
  PROVE  /\ JobsInv' /\ DOMAIN jobs' = DOMAIN jobs /\ DOMAIN runners' \subseteq DOMAIN runners
         /\ \A i \in DOMAIN jobs : JobForward(jobs[i], jobs'[i])
<1>0. /\ DOMAIN jobs = Range(order) /\ jobs = [i \in Range(order) |-> jobs[i]]
      /\ \A i \in DOMAIN jobs : JobOK(jobs[i])
      /\ id \in DOMAIN jobs => Found(runners[id].tenant, id)
  BY DEF JobsInv, OrderInv, RunnerInv, Found
<1>1. /\ DOMAIN jobs' = DOMAIN jobs /\ jobs' = [i \in Range(order) |-> jobs'[i]]
      /\ \A i \in DOMAIN jobs : jobs'[i] = IF i = id THEN made ELSE jobs[i]
  <2>1. CASE id \in DOMAIN jobs
    <3>1. jobs' = [jobs EXCEPT ![id] = made]
      BY <1>0, <2>1
    <3> QED BY <1>0, <3>1
  <2>2. CASE id \notin DOMAIN jobs
    <3>1. jobs' = jobs
      BY <2>2 DEF Found
    <3> QED BY <1>0, <2>2, <3>1
  <2> QED BY <2>1, <2>2
<1>2. ASSUME NEW i \in DOMAIN jobs, i # id PROVE JobForward(jobs[i], jobs'[i])
  BY <1>0, <1>1, <1>2 DEF JobForward, JobOK
<1>3. \A i \in DOMAIN jobs : JobForward(jobs[i], jobs'[i])
  BY <1>1, <1>2
<1>4. OrderInv'
  BY <1>0, <1>1 DEF OrderInv, JobsInv
<1>5. /\ DOMAIN runners' \subseteq DOMAIN runners
      /\ runners' = [i \in DOMAIN runners' |-> runners'[i]]
      /\ \A i \in DOMAIN runners' : i # id => runners'[i] = runners[i]
      /\ id \in DOMAIN runners' =>
           /\ runners'[id] = [runners[id] EXCEPT !.at = "executing"]
           /\ id \in DOMAIN jobs => made.status = "running"
  BY DEF Ended, JobsInv, RunnerInv
<1>6. /\ RunnerOK([runners[id] EXCEPT !.at = "executing"])
      /\ [runners[id] EXCEPT !.at = "executing"].tenant = runners[id].tenant
      /\ [runners[id] EXCEPT !.at = "executing"].at = "executing"
  <2>1. PICK t, a : runners[id] = [tenant |-> t, at |-> a]
    BY SMTT(60) DEF JobsInv, RunnerInv, RunnerOK
  <2>2. PICK r : r = [runners[id] EXCEPT !.at = "executing"]
    OBVIOUS
  <2>3. r = [tenant |-> t, at |-> "executing"] /\ runners[id].tenant = t
    BY <2>1, <2>2
  <2>4. RunnerOK(r) /\ r.tenant = t /\ r.at = "executing"
    BY <2>3 DEF RunnerOK
  <2> QED BY <2>2, <2>3, <2>4
<1>7. \A i \in DOMAIN runners' : RunnerOK(runners'[i])
  BY <1>5, <1>6 DEF JobsInv, RunnerInv
<1>8. ASSUME NEW i \in DOMAIN jobs' \cap DOMAIN runners'
      PROVE  /\ jobs'[i].tenant = runners'[i].tenant
             /\ jobs'[i].status = IF runners'[i].at = "created" THEN "queued" ELSE "running"
  <2>0. i \in DOMAIN jobs \cap DOMAIN runners /\ jobs[i].tenant = runners[i].tenant
    BY <1>1, <1>5 DEF JobsInv, RunnerInv
  <2>1. CASE i = id
    <3>1. jobs'[i] = made /\ made.tenant = jobs[id].tenant /\ made.status = "running"
      BY <1>1, <1>5, <2>0, <2>1
    <3>2. runners'[i].tenant = runners[id].tenant /\ runners'[i].at = "executing"
      BY <1>5, <1>6, <2>1
    <3> QED BY <2>0, <2>1, <3>1, <3>2
  <2>2. CASE i # id
    BY <1>1, <1>5, <2>0, <2>2 DEF JobsInv, RunnerInv
  <2> QED BY <2>1, <2>2
<1>9. RunnerInv'
  BY <1>5, <1>7, <1>8 DEF RunnerInv
<1> QED BY <1>1, <1>3, <1>4, <1>5, <1>9 DEF JobsInv

\* runQueryJob.
LEMMA RunKeepsJobs ==
  ASSUME JobsInv, NEW id \in DOMAIN runners, NEW now, RunQueryJob(id, now)
  PROVE  /\ JobsInv' /\ DOMAIN jobs' = DOMAIN jobs /\ DOMAIN runners' \subseteq DOMAIN runners
         /\ \A i \in DOMAIN jobs : JobForward(jobs[i], jobs'[i])
<1> DEFINE j == jobs[id]
           Marked(status, at, manifest) ==
             [tenant |-> j.tenant, status |-> status, createdAt |-> j.createdAt,
              finishedAt |-> at, manifest |-> manifest]
<1>0. id \in DOMAIN jobs =>
        /\ jobs = [i \in DOMAIN jobs |-> jobs[i]] /\ JobOK(jobs[id])
        /\ jobs[id].status = IF runners[id].at = "created" THEN "queued" ELSE "running"
  BY DEF JobsInv, OrderInv, RunnerInv
<1>1. ASSUME NEW status \in {"queued", "running", "succeeded", "failed"}, NEW at, NEW manifest,
             status = "succeeded" <=> manifest # NoManifest,
             <<j.status, status>> \in {<<"queued", "running">>, <<"running", "succeeded">>,
                                       <<"running", "failed">>}
      PROVE  /\ JobOK(Marked(status, at, manifest))
             /\ JobForward(j, Marked(status, at, manifest))
             /\ Marked(status, at, manifest).tenant = j.tenant
  <2>1. PICK m : m = Marked(status, at, manifest)
    OBVIOUS
  <2>2. m.tenant = j.tenant /\ m.status = status /\ m.manifest = manifest
    BY <2>1
  <2>3. m = [tenant |-> m.tenant, status |-> m.status, createdAt |-> m.createdAt,
             finishedAt |-> m.finishedAt, manifest |-> m.manifest]
    BY <2>1
  <2>4. JobOK(m)
    BY <1>1, <2>2, <2>3 DEF JobOK
  <2>5. j.status \notin {"succeeded", "failed"}
    BY <1>1
  <2>6. JobForward(j, m)
    BY <1>1, <2>2, <2>5 DEF JobForward
  <2> QED BY <2>1, <2>2, <2>4, <2>6
<1>2. CASE Start(id)
  <2>1. PICK m : m = Marked("running", j.finishedAt, j.manifest)
    OBVIOUS
  <2>2. ASSUME id \in DOMAIN jobs
        PROVE  /\ [jobs EXCEPT ![id].status = "running"] = [jobs EXCEPT ![id] = m]
               /\ JobOK(m) /\ JobForward(j, m) /\ m.tenant = j.tenant
    <3>1. JobOK(j) /\ j.status = "queued" /\ j.manifest = NoManifest
      BY <1>0, <1>2, <2>2 DEF Start, JobOK
    <3>2. PICK a, b, c, d, e : j = [tenant |-> a, status |-> b, createdAt |-> c,
                                    finishedAt |-> d, manifest |-> e]
      BY <3>1 DEF JobOK
    <3>3. [j EXCEPT !.status = "running"] = m
      BY <2>1, <3>2
    <3>4. JobOK(m) /\ JobForward(j, m) /\ m.tenant = j.tenant
      BY <1>1, <2>1, <3>1
    <3> QED BY <3>3, <3>4
  <2>3. jobs' = IF Found(runners[id].tenant, id) THEN [jobs EXCEPT ![id] = m] ELSE jobs
    BY <1>2, <2>2 DEF Start, Found
  <2>4. m.status = "running"
    BY <2>1
  <2> QED BY <1>2, <2>2, <2>3, <2>4, MarkKeepsJobs DEF Start
<1>3. CASE Succeed(id, now)
  <2>1. PICK m : m = Marked("succeeded", now, QueryManifest(id))
    OBVIOUS
  <2>2. ASSUME id \in DOMAIN jobs
        PROVE  /\ [jobs EXCEPT ![id].status = "succeeded", ![id].finishedAt = now,
                               ![id].manifest = QueryManifest(id)] = [jobs EXCEPT ![id] = m]
               /\ JobOK(m) /\ JobForward(j, m) /\ m.tenant = j.tenant
    <3>1. JobOK(j) /\ j.status = "running"
      BY <1>0, <1>3, <2>2 DEF Succeed
    <3>2. PICK a, b, c, d, e : j = [tenant |-> a, status |-> b, createdAt |-> c,
                                    finishedAt |-> d, manifest |-> e]
      BY <3>1 DEF JobOK
    <3>3. [[[j EXCEPT !.status = "succeeded"] EXCEPT !.finishedAt = now]
             EXCEPT !.manifest = QueryManifest(id)] = m
      <4>1. PICK k : k = [j EXCEPT !.status = "succeeded"]
        OBVIOUS
      <4>2. k = [tenant |-> a, status |-> "succeeded", createdAt |-> c, finishedAt |-> d, manifest |-> e]
        BY <3>2, <4>1
      <4>3. PICK l : l = [k EXCEPT !.finishedAt = now]
        OBVIOUS
      <4>4. l = [tenant |-> a, status |-> "succeeded", createdAt |-> c, finishedAt |-> now, manifest |-> e]
        BY <4>2, <4>3
      <4>5. [l EXCEPT !.manifest = QueryManifest(id)]
              = [tenant |-> a, status |-> "succeeded", createdAt |-> c, finishedAt |-> now,
                 manifest |-> QueryManifest(id)]
        BY <4>4
      <4>6. j.tenant = a /\ j.createdAt = c
        BY <3>2
      <4> QED BY <2>1, <4>1, <4>3, <4>5, <4>6
    <3>4. QueryManifest(id) # NoManifest
      BY DEF QueryManifest, NoManifest
    <3>5. JobOK(m) /\ JobForward(j, m) /\ m.tenant = j.tenant
      BY <1>1, <2>1, <3>1, <3>4
    <3> QED BY <3>3, <3>5
  <2>3. jobs' = IF Found(runners[id].tenant, id) THEN [jobs EXCEPT ![id] = m] ELSE jobs
    BY <1>3, <2>2 DEF Succeed, Found
  <2> QED BY <1>3, <2>2, <2>3, MarkKeepsJobs DEF Succeed
<1>4. CASE Fail(id, now)
  <2>1. PICK m : m = Marked("failed", now, j.manifest)
    OBVIOUS
  <2>2. ASSUME id \in DOMAIN jobs
        PROVE  /\ [jobs EXCEPT ![id].status = "failed", ![id].finishedAt = now]
                    = [jobs EXCEPT ![id] = m]
               /\ JobOK(m) /\ JobForward(j, m) /\ m.tenant = j.tenant
    <3>1. JobOK(j) /\ j.status = "running" /\ j.manifest = NoManifest
      BY <1>0, <1>4, <2>2 DEF Fail, JobOK
    <3>2. PICK a, b, c, d, e : j = [tenant |-> a, status |-> b, createdAt |-> c,
                                    finishedAt |-> d, manifest |-> e]
      BY <3>1 DEF JobOK
    <3>3. [[j EXCEPT !.status = "failed"] EXCEPT !.finishedAt = now] = m
      <4>1. PICK k : k = [j EXCEPT !.status = "failed"]
        OBVIOUS
      <4>2. k = [tenant |-> a, status |-> "failed", createdAt |-> c, finishedAt |-> d, manifest |-> e]
        BY <3>2, <4>1
      <4>3. [k EXCEPT !.finishedAt = now]
              = [tenant |-> a, status |-> "failed", createdAt |-> c, finishedAt |-> now, manifest |-> e]
        BY <4>2
      <4>4. j.tenant = a /\ j.createdAt = c /\ j.manifest = e
        BY <3>2
      <4> QED BY <2>1, <4>1, <4>3, <4>4
    <3>4. JobOK(m) /\ JobForward(j, m) /\ m.tenant = j.tenant
      BY <1>1, <2>1, <3>1
    <3> QED BY <3>3, <3>4
  <2>3. jobs' = IF Found(runners[id].tenant, id) THEN [jobs EXCEPT ![id] = m] ELSE jobs
    BY <1>4, <2>2 DEF Fail, Found
  <2> QED BY <1>4, <2>2, <2>3, MarkKeepsJobs DEF Fail
<1> QED BY <1>2, <1>3, <1>4 DEF RunQueryJob
-----------------------------------------------------------------------------
(* The numbers of requests: each is drawn once, so that a request under way  *)
(* has a number that no other request, no job and no goroutine has.          *)

\* The slot has a request.
Busy(s) == flight[s].phase # "idle"

\* The number the request was given.
Number(s) == flight[s].request.id

\* Numbers are drawn once.
IdInv ==
  /\ \A s \in Slots : Busy(s) => /\ Number(s) \in 1 .. forwarded
                                  /\ Number(s) \notin DOMAIN jobs \cup DOMAIN runners
  /\ \A s, u \in Slots : s # u /\ Busy(s) /\ Busy(u) => Number(s) # Number(u)
  /\ DOMAIN jobs \cup DOMAIN runners \subseteq 1 .. forwarded

\* No request comes or goes.
LEMMA SameNumbers ==
  ASSUME IdInv, forwarded' = forwarded,
         \A s \in Slots : Busy(s)' => Busy(s) /\ Number(s)' = Number(s),
         DOMAIN jobs' \cup DOMAIN runners' \subseteq DOMAIN jobs \cup DOMAIN runners
  PROVE  IdInv'
BY DEF IdInv

\* A request is done; a job, and its goroutine, may have its number.
LEMMA NumberUsed ==
  ASSUME IdInv, NEW slot \in Slots, Busy(slot), ~Busy(slot)', forwarded' = forwarded,
         \A s \in Slots : s # slot => flight'[s] = flight[s],
         DOMAIN jobs' \subseteq DOMAIN jobs \cup {Number(slot)},
         DOMAIN runners' \subseteq DOMAIN runners \cup {Number(slot)}
  PROVE  IdInv'
<1>1. \A s \in Slots : Busy(s)' => s # slot /\ Busy(s) /\ Number(s)' = Number(s)
  BY DEF Busy, Number
<1> QED BY <1>1 DEF IdInv

\* A request is forwarded.
LEMMA NumberDrawn ==
  ASSUME IdInv, forwarded \in Nat, NEW slot \in Slots, NEW f, flight'[slot] = f,
         f.request.id = forwarded + 1, forwarded' = forwarded + 1,
         \A s \in Slots : s # slot => flight'[s] = flight[s],
         jobs' = jobs, runners' = runners
  PROVE  IdInv'
<1>1. \A s \in Slots : s # slot => (Busy(s)' <=> Busy(s)) /\ Number(s)' = Number(s)
  BY DEF Busy, Number
<1>2. Number(slot)' = forwarded + 1
  BY DEF Number
<1>3. /\ forwarded + 1 \in 1 .. forwarded' /\ forwarded + 1 \notin 1 .. forwarded
      /\ 1 .. forwarded \subseteq 1 .. forwarded'
  OBVIOUS
<1> QED BY <1>1, <1>2, <1>3 DEF IdInv

\* A request that the service has taken is done.
LEMMA DoneFrees ==
  ASSUME FlightInv, NEW slot \in Slots, Done(slot)
  PROVE  /\ FlightInv' /\ Carries(flight[slot]) /\ flight[slot].at \in Nat
         /\ Busy(slot) /\ ~Busy(slot)' /\ forwarded' = forwarded
         /\ flight[slot].phase = "admitted" /\ flight'[slot] = Idle
         /\ \A s \in Slots : s # slot => flight'[s] = flight[s]
<1>1. /\ flight[slot].phase = "admitted" /\ flight' = [flight EXCEPT ![slot] = Idle]
      /\ UNCHANGED <<service, time, forwarded>>
  BY DEF Done
<1>2. Carries(flight[slot]) /\ flight[slot].at \in Nat
  BY <1>1 DEF FlightInv, SlotOK
<1>3. /\ FlightInv' /\ flight'[slot] = Idle
      /\ \A s \in Slots : s # slot => flight'[s] = flight[s]
  <2>1. forwarded' \in Nat
    BY <1>1 DEF FlightInv
  <2> QED BY <1>1, <2>1, IdleSlot, OneSlot
<1> QED BY <1>1, <1>2, <1>3, IdleSlot DEF Busy

\* Requests, their numbers and the jobs made of them.
CoreInv == FlightInv /\ IdInv /\ JobsInv

\* A request is done that made no job.
LEMMA OtherApplied ==
  ASSUME CoreInv, NEW slot \in Slots, Done(slot), UNCHANGED jobVars
  PROVE  CoreInv'
<1>1. IdInv'
  BY DoneFrees, NumberUsed DEF CoreInv
<1>2. JobsInv'
  BY DEF CoreInv, JobsInv, OrderInv, RunnerInv
<1> QED BY <1>1, <1>2, DoneFrees DEF CoreInv

\* What a created job is: its tenant is that of the request.
LEMMA JobApplied ==
  ASSUME CoreInv, NEW slot \in Slots, NEW r, r = flight[slot].request,
         ApplyExport(slot, r) \/ ApplyQuery(slot, r)
  PROVE  /\ CoreInv'
         /\ DOMAIN jobs' \subseteq DOMAIN jobs \cup {r.id}
         /\ r.id \in DOMAIN jobs' => jobs'[r.id].tenant = r.tenant
         /\ \A i \in DOMAIN jobs \cap DOMAIN jobs' : jobs'[i] = jobs[i]
<1>0. Done(slot) /\ Number(slot) = r.id
  BY DEF ApplyExport, ApplyQuery, Number
<1>1. /\ FlightInv' /\ Busy(slot) /\ ~Busy(slot)' /\ forwarded' = forwarded
      /\ \A s \in Slots : s # slot => flight'[s] = flight[s]
  BY <1>0, DoneFrees DEF CoreInv
<1>2. r.id \in Nat /\ r.id \notin DOMAIN jobs /\ r.id \notin DOMAIN runners
  BY SMTT(60), <1>0, <1>1 DEF CoreInv, IdInv
<1>3. \E made : /\ JobOK(made) /\ Created(r.id, made) /\ made.tenant = r.tenant
               /\ \/ runners' = runners
                  \/ /\ runners' = Put(runners, r.id, [tenant |-> made.tenant, at |-> "created"])
                     /\ made.status = "queued"
  <2>1. CASE ApplyExport(slot, r)
    <3>1. PICK made, at : /\ made = [tenant |-> r.tenant, status |-> "succeeded", createdAt |-> at,
                                   finishedAt |-> at, manifest |-> ExportManifest(r.id, r.tenant, r.body)]
                         /\ Created(r.id, made) /\ runners' = runners
      BY <2>1 DEF ApplyExport, CreateExport
    <3>2. ExportManifest(r.id, r.tenant, r.body) # NoManifest
      <4>1. PICK c : ExportManifest(r.id, r.tenant, r.body) = [content |-> c, sha256 |-> <<r.id, r.tenant, r.body>>]
        BY DEF ExportManifest
      <4>2. <<r.id, r.tenant, r.body>> # <<>>
        OBVIOUS
      <4>3. ExportManifest(r.id, r.tenant, r.body).sha256 = <<r.id, r.tenant, r.body>>
        BY <4>1
      <4>4. NoManifest.sha256 = <<>>
        BY DEF NoManifest
      <4> QED BY <4>2, <4>3, <4>4
    <3>3. made.tenant = r.tenant /\ JobOK(made)
      BY <3>1, <3>2 DEF JobOK
    <3> QED BY <3>1, <3>3
  <2>2. CASE ApplyQuery(slot, r)
    <3>1. PICK made, at : /\ made = [tenant |-> r.tenant, status |-> "queued", createdAt |-> at,
                                   finishedAt |-> 0, manifest |-> NoManifest]
                         /\ Created(r.id, made)
                         /\ runners' = Put(runners, r.id, [tenant |-> r.tenant, at |-> "created"])
      BY <2>2 DEF ApplyQuery, CreateQueryJob
    <3>3. made.tenant = r.tenant /\ made.status = "queued" /\ JobOK(made)
      BY <3>1 DEF JobOK
    <3> QED BY <3>1, <3>3
  <2> QED BY <2>1, <2>2
<1>4. PICK made : /\ JobOK(made) /\ Created(r.id, made) /\ made.tenant = r.tenant
                 /\ \/ runners' = runners
                    \/ /\ runners' = Put(runners, r.id, [tenant |-> made.tenant, at |-> "created"])
                       /\ made.status = "queued"
  BY <1>3
<1>5. /\ JobsInv'
      /\ DOMAIN jobs' \subseteq DOMAIN jobs \cup {r.id}
      /\ DOMAIN runners' \subseteq DOMAIN runners \cup {r.id}
      /\ \A i \in DOMAIN jobs \cap DOMAIN jobs' : jobs'[i] = jobs[i]
      /\ r.id \in DOMAIN jobs' => jobs'[r.id] = made
  BY <1>2, <1>4, CreateKeepsJobs DEF CoreInv
<1>6. IdInv'
  BY <1>0, <1>1, <1>5, NumberUsed DEF CoreInv
<1> QED BY <1>1, <1>4, <1>5, <1>6 DEF CoreInv

\* Every step keeps what is known of requests and jobs, and takes each job that
\* stays forward.
LEMMA CoreStep ==
  ASSUME CoreInv, [PlaneNext]_planeVars
  PROVE  CoreInv' /\ \A i \in DOMAIN jobs \cap DOMAIN jobs' : JobForward(jobs[i], jobs'[i])
<1>0. \A i \in DOMAIN jobs : JobForward(jobs[i], jobs[i])
  BY DEF CoreInv, JobsInv, OrderInv, JobOK, JobForward
<1>1. ASSUME UNCHANGED jobVars
      PROVE  JobsInv' /\ \A i \in DOMAIN jobs \cap DOMAIN jobs' : JobForward(jobs[i], jobs'[i])
  <2>1. JobsInv'
    BY <1>1 DEF CoreInv, JobsInv, OrderInv, RunnerInv
  <2> QED BY <1>0, <1>1, <2>1
<1>2. ASSUME NEW slot \in Slots, NEW token \in Tokens, NEW claimed \in Tenants, NEW body \in Bodies,
             Forward(slot, token, claimed, body)
      PROVE  FlightInv' /\ IdInv' /\ UNCHANGED jobVars
  <2>1. PICK f : SlotOK(f) /\ f.request.id = forwarded + 1 /\ flight' = [flight EXCEPT ![slot] = f]
    BY <1>2, ForwardSends DEF CoreInv
  <2>2. /\ forwarded' = forwarded + 1 /\ forwarded \in Nat /\ forwarded' \in Nat
        /\ UNCHANGED <<service, time, jobVars>>
    <3>1. forwarded \in Nat
      BY DEF CoreInv, FlightInv
    <3>2. forwarded' = forwarded + 1 /\ UNCHANGED <<service, time, jobVars>>
      BY <1>2 DEF Forward, storeVars
    <3> QED BY <3>1, <3>2
  <2>3. /\ FlightInv' /\ flight'[slot] = f
        /\ \A s \in Slots : s # slot => flight'[s] = flight[s]
    BY <2>1, <2>2, OneSlot DEF CoreInv
  <2>4. IdInv'
    BY <2>1, <2>2, <2>3, NumberDrawn DEF CoreInv
  <2> QED BY <2>2, <2>3, <2>4
<1>3. ASSUME NEW slot \in Slots, Admit(slot) \/ Refuse(slot)
      PROVE  FlightInv' /\ IdInv' /\ UNCHANGED jobVars
  <2>1. PICK f : /\ SlotOK(f) /\ flight' = [flight EXCEPT ![slot] = f]
                 /\ f.phase # "idle" => Busy(slot) /\ f.request.id = Number(slot)
    BY <1>3, AdmitMarks, IdleSlot DEF CoreInv, Refuse, Busy, Number
  <2>2. forwarded' = forwarded /\ forwarded \in Nat /\ UNCHANGED <<service, time, jobVars>>
    BY <1>3 DEF Admit, Refuse, CoreInv, FlightInv, storeVars
  <2>3. /\ FlightInv' /\ flight'[slot] = f
        /\ \A s \in Slots : s # slot => flight'[s] = flight[s]
    BY <2>1, <2>2, OneSlot DEF CoreInv
  <2>4. \A s \in Slots : Busy(s)' => Busy(s) /\ Number(s)' = Number(s)
    BY <2>1, <2>3 DEF Busy, Number
  <2>5. IdInv'
    BY <2>2, <2>4, SameNumbers DEF CoreInv
  <2> QED BY <2>2, <2>3, <2>5
<1>4. ASSUME NEW slot \in Slots, NEW r, r = flight[slot].request,
             ApplyExport(slot, r) \/ ApplyQuery(slot, r)
      PROVE  CoreInv' /\ \A i \in DOMAIN jobs \cap DOMAIN jobs' : JobForward(jobs[i], jobs'[i])
  BY <1>0, <1>4, JobApplied
<1>5. ASSUME NEW slot \in Slots, NEW r,
             \/ ApplyMember(slot, r) \/ ApplyPolicy(slot, r) \/ ApplyEvent(slot, r)
             \/ ApplyRegistration(slot, r) \/ ApplyIntegration(slot, r) \/ AnswerPrincipal(slot)
      PROVE  CoreInv' /\ UNCHANGED jobVars
  <2>1. Done(slot) /\ UNCHANGED jobVars
    BY <1>5 DEF ApplyMember, ApplyPolicy, ApplyEvent, ApplyRegistration, ApplyIntegration,
                AnswerPrincipal, storeVars
  <2> QED BY <2>1, OtherApplied
<1>6. ASSUME NEW slot \in Slots, Apply(slot)
      PROVE  CoreInv' /\ \A i \in DOMAIN jobs \cap DOMAIN jobs' : JobForward(jobs[i], jobs'[i])
  <2>1. PICK r : r = flight[slot].request
    OBVIOUS
  <2> QED BY <1>1, <1>4, <1>5, <1>6, <2>1 DEF Apply
<1>7. ASSUME UNCHANGED <<service, forwarded, flight>>, time' \in Nat,
             DOMAIN jobs' \cup DOMAIN runners' \subseteq DOMAIN jobs \cup DOMAIN runners
      PROVE  FlightInv' /\ IdInv'
  <2>1. FlightInv'
    BY <1>7 DEF CoreInv, FlightInv
  <2>2. \A s \in Slots : Busy(s)' => Busy(s) /\ Number(s)' = Number(s)
    BY <1>7 DEF Busy, Number
  <2> QED BY <1>7, <2>1, <2>2, SameNumbers DEF CoreInv
<1>8. ASSUME NEW id \in DOMAIN runners, Run(id)
      PROVE  CoreInv' /\ \A i \in DOMAIN jobs \cap DOMAIN jobs' : JobForward(jobs[i], jobs'[i])
  <2>1. /\ JobsInv' /\ DOMAIN jobs' = DOMAIN jobs /\ DOMAIN runners' \subseteq DOMAIN runners
        /\ \A i \in DOMAIN jobs : JobForward(jobs[i], jobs'[i])
    BY <1>8, RunKeepsJobs DEF Run, CoreInv
  <2>2. UNCHANGED <<service, forwarded, flight>> /\ time' \in Nat
    BY <1>8 DEF Run, CoreInv, FlightInv
  <2> QED BY <1>7, <2>1, <2>2 DEF CoreInv
<1>9. CASE Decide \/ Tick \/ UNCHANGED planeVars
  <2>1. UNCHANGED <<service, forwarded, flight, jobVars>>
    BY <1>9 DEF Decide, Tick, planeVars, storeVars
  <2>2. time' \in Nat
    <3>1. time \in Nat
      BY DEF CoreInv, FlightInv
    <3>2. CASE Tick
      <4>1. time' \in Instants[service] /\ service \in Services
        BY <3>2 DEF Tick, CoreInv, FlightInv
      <4> QED BY <4>1, PlaneAssumption
    <3> QED BY <1>9, <3>1, <3>2 DEF Decide, planeVars
  <2> QED BY <1>1, <1>7, <2>1, <2>2 DEF CoreInv
<1> QED BY <1>1, <1>2, <1>3, <1>6, <1>8, <1>9 DEF PlaneNext, CoreInv
-----------------------------------------------------------------------------
(* Policy families. *)

\* A version of a policy.
VersionOK(v) ==
  /\ v = [status |-> v.status, rules |-> v.rules, createdBy |-> v.createdBy,
          createdAt |-> v.createdAt]
  /\ v.status \in {"draft", "active", "inactive"}

\* One version is active, the recorded one, or none is.
FamilyOK(s) ==
  /\ s = [active |-> s.active, versions |-> s.versions]
  /\ s.versions = [v \in DOMAIN s.versions |-> s.versions[v]]
  /\ NoVersion \notin DOMAIN s.versions
  /\ \A v \in DOMAIN s.versions : VersionOK(s.versions[v])
  /\ {v \in DOMAIN s.versions : s.versions[v].status = "active"}
       = IF s.active = NoVersion THEN {} ELSE {s.active}

\* Every tenant has a map of families.
FamiliesInv ==
  /\ families = [t \in Tenants |-> families[t]]
  /\ \A t \in Tenants : /\ families[t] = [f \in DOMAIN families[t] |-> families[t][f]]
                         /\ \A f \in DOMAIN families[t] : FamilyOK(families[t][f])

\* What may become of a version, and of a family.
VersionForward(old, new) ==
  /\ [new EXCEPT !.status = old.status] = old
  /\ old.status # "draft" => new.status # "draft"

\* No version of a family disappears.
FamilyForward(s, n) ==
  \A v \in DOMAIN s.versions :
    v \in DOMAIN n.versions /\ VersionForward(s.versions[v], n.versions[v])

\* One version's status changes, and not to draft, or nothing does.
LEMMA StatusForward ==
  ASSUME NEW old, VersionOK(old), NEW status \in {"active", "inactive", old.status},
         NEW new, new = [old EXCEPT !.status = status]
  PROVE  VersionOK(new) /\ VersionForward(old, new) /\ new.status = status
<1>1. PICK a, b, c, d : old = [status |-> a, rules |-> b, createdBy |-> c, createdAt |-> d]
  BY DEF VersionOK
<1>3. new = [status |-> status, rules |-> b, createdBy |-> c, createdAt |-> d]
  BY <1>1
<1>4. VersionOK(new) /\ new.status = status
  BY <1>3 DEF VersionOK
<1>5. [new EXCEPT !.status = old.status] = old
  <2>1. old.status = a
    BY <1>1
  <2>2. [new EXCEPT !.status = a] = [status |-> a, rules |-> b, createdBy |-> c, createdAt |-> d]
    BY ONLY <1>3, SMTT(20)
  <2> QED BY <1>1, <2>1, <2>2
<1>6. VersionForward(old, new)
  BY <1>4, <1>5 DEF VersionForward
<1> QED BY <1>4, <1>6

\* A family that is left alone has gone forward.
LEMMA FamilyStays == ASSUME NEW s, FamilyOK(s) PROVE FamilyForward(s, s)
<1> SUFFICES ASSUME NEW v \in DOMAIN s.versions PROVE VersionForward(s.versions[v], s.versions[v])
  BY DEF FamilyForward
<1>1. PICK a, b, c, d : s.versions[v] = [status |-> a, rules |-> b, createdBy |-> c, createdAt |-> d]
  BY SMTT(60) DEF FamilyOK, VersionOK
<1>2. PICK old : old = s.versions[v]
  OBVIOUS
<1>3. [old EXCEPT !.status = old.status] = old
  BY <1>1, <1>2
<1> QED BY <1>2, <1>3 DEF VersionForward

\* One family of a tenant is stored.
LEMMA FamilyStored ==
  ASSUME FamiliesInv, NEW t \in Tenants, NEW f, NEW n, FamilyOK(n),
         f \in DOMAIN families[t] => FamilyForward(families[t][f], n),
         families' = [families EXCEPT ![t] = Put(@, f, n)]
  PROVE  /\ FamiliesInv'
         /\ \A u \in Tenants : u # t => families'[u] = families[u]
         /\ \A u \in Tenants : \A g \in DOMAIN families[u] :
              g \in DOMAIN families'[u] /\ FamilyForward(families[u][g], families'[u][g])
<1>1. /\ families' = [u \in Tenants |-> families'[u]]
      /\ families'[t] = Put(families[t], f, n)
      /\ \A u \in Tenants : u # t => families'[u] = families[u]
  BY DEF FamiliesInv
<1>2. /\ DOMAIN families'[t] = DOMAIN families[t] \cup {f}
      /\ families'[t] = [g \in DOMAIN families'[t] |-> families'[t][g]]
      /\ families'[t][f] = n
      /\ \A g \in DOMAIN families[t] : g # f => families'[t][g] = families[t][g]
  BY SMTT(60), <1>1 DEF Put
<1>3. \A g \in DOMAIN families'[t] : FamilyOK(families'[t][g])
  BY <1>2 DEF FamiliesInv
<1>4. FamiliesInv'
  BY <1>1, <1>2, <1>3 DEF FamiliesInv
<1>5. ASSUME NEW u \in Tenants, NEW g \in DOMAIN families[u]
      PROVE  g \in DOMAIN families'[u] /\ FamilyForward(families[u][g], families'[u][g])
  <2>1. FamilyForward(families[u][g], families[u][g])
    BY FamilyStays DEF FamiliesInv
  <2> QED BY <1>1, <1>2, <2>1
<1> QED BY <1>1, <1>4, <1>5

\* CreateVersion: a draft comes to the family, or the version exists.
LEMMA CreateForward ==
  ASSUME FamiliesInv, NEW t \in Tenants, NEW request, NEW actor, NEW now,
         request.fresh \in Nat, CreateVersion(t, request, actor, now)
  PROVE  \E n : /\ FamilyOK(n)
                /\ request.family \in DOMAIN families[t] =>
                     FamilyForward(families[t][request.family], n)
                /\ families' = [families EXCEPT ![t] = Put(@, request.family, n)]
<1> DEFINE f == request.family
           name == VersionName(request)
           draft == [status |-> "draft", rules |-> request.fresh, createdBy |-> actor, createdAt |-> now]
<1>1. PICK state : state = IF f \in DOMAIN families[t] THEN families[t][f]
                           ELSE [active |-> NoVersion, versions |-> <<>>]
  OBVIOUS
<1>2. PICK versions : versions = IF name \in DOMAIN state.versions THEN state.versions
                                 ELSE Put(state.versions, name, draft)
  OBVIOUS
<1>3. PICK n : n = [state EXCEPT !.versions = versions]
  OBVIOUS
<1>4. families' = [families EXCEPT ![t] = Put(@, f, n)]
  BY <1>1, <1>2, <1>3 DEF CreateVersion
<1>5. FamilyOK(state)
  <2>1. CASE f \in DOMAIN families[t]
    BY <1>1, <2>1 DEF FamiliesInv
  <2>2. CASE f \notin DOMAIN families[t]
    <3>1. state = [active |-> NoVersion, versions |-> <<>>]
      BY <1>1, <2>2
    <3>2. state.active = NoVersion /\ state.versions = <<>> /\ DOMAIN state.versions = {}
      BY <3>1
    <3>3. state.versions = [v \in DOMAIN state.versions |-> state.versions[v]]
      BY <3>2
    <3> QED BY <3>1, <3>2, <3>3 DEF FamilyOK
  <2> QED BY <2>1, <2>2
<1>6. name # NoVersion
  BY PolicyAssumption DEF VersionName
<1>7. n = [active |-> state.active, versions |-> versions]
  <2>1. PICK a, vs : state = [active |-> a, versions |-> vs]
    BY <1>5 DEF FamilyOK
  <2>2. state.active = a
    BY <2>1
  <2> QED BY <1>3, <2>1, <2>2
<1>8. n.active = state.active /\ n.versions = versions
  BY <1>7
<1>9. FamilyOK(n) /\ FamilyForward(state, n)
  <2>1. CASE name \in DOMAIN state.versions
    <3>1. versions = state.versions
      BY <1>2, <2>1
    <3>2. n = state
      BY <1>5, <1>7, <3>1 DEF FamilyOK
    <3> QED BY <1>5, <3>2, FamilyStays
  <2>2. CASE name \notin DOMAIN state.versions
    <3>1. /\ DOMAIN versions = DOMAIN state.versions \cup {name}
          /\ versions = [v \in DOMAIN versions |-> versions[v]]
          /\ versions[name] = draft
          /\ \A v \in DOMAIN state.versions : versions[v] = state.versions[v]
      BY <1>2, <2>2 DEF Put
    <3>2. VersionOK(draft) /\ draft.status = "draft"
      BY DEF VersionOK
    <3>3. \A v \in DOMAIN versions : VersionOK(versions[v])
      BY <1>5, <3>1, <3>2 DEF FamilyOK
    <3>4. {v \in DOMAIN versions : versions[v].status = "active"}
            = {v \in DOMAIN state.versions : state.versions[v].status = "active"}
      BY <2>2, <3>1, <3>2
    <3>5. FamilyOK(n)
      BY <1>5, <1>6, <1>7, <1>8, <3>1, <3>3, <3>4 DEF FamilyOK
    <3>6. FamilyForward(state, n)
      <4>1. FamilyForward(state, state)
        BY <1>5, FamilyStays
      <4> QED BY <1>8, <3>1, <4>1 DEF FamilyForward
    <3> QED BY <3>5, <3>6
  <2> QED BY <2>1, <2>2
<1> QED BY <1>1, <1>4, <1>9

\* ActivateVersion: the version becomes active, the active one inactive.
LEMMA ActivateForward ==
  ASSUME FamiliesInv, NEW t \in Tenants, NEW request, ActivateVersion(t, request)
  PROVE  \E n : /\ FamilyOK(n)
                /\ request.family \in DOMAIN families[t] =>
                     FamilyForward(families[t][request.family], n)
                /\ families' = [families EXCEPT ![t] = Put(@, request.family, n)]
<1> DEFINE f == request.family
<1>1. /\ f \in DOMAIN families[t] /\ request.version \in DOMAIN families[t][f].versions
      /\ FamilyOK(families[t][f]) /\ families[t] = [g \in DOMAIN families[t] |-> families[t][g]]
      /\ families = [u \in Tenants |-> families[u]]
  BY DEF ActivateVersion, FamiliesInv
<1> DEFINE old == families[t][f].versions
           Status(v) == IF v = request.version THEN "active"
                        ELSE IF old[v].status = "active" THEN "inactive"
                        ELSE old[v].status
           updated == [v \in DOMAIN old |-> [old[v] EXCEPT !.status = Status(v)]]
<1>2. families' = [families EXCEPT ![t][f] = [active |-> request.version, versions |-> updated]]
  BY DEF ActivateVersion
<1>3. PICK versions : versions = updated
  OBVIOUS
<1>4. PICK n : n = [active |-> request.version, versions |-> versions]
  OBVIOUS
<1>5. families' = [families EXCEPT ![t][f] = n]
  BY <1>2, <1>3, <1>4
<1>6. families' = [families EXCEPT ![t] = Put(@, f, n)]
  <2>1. [families[t] EXCEPT ![f] = n] = Put(families[t], f, n)
    BY <1>1 DEF Put
  <2> QED BY <1>5, <2>1
<1>7. \A v \in DOMAIN old : VersionOK(old[v])
  BY <1>1 DEF FamilyOK
<1>8. n.active = request.version /\ n.versions = versions /\ DOMAIN versions = DOMAIN old
  BY <1>3, <1>4
<1>9. ASSUME NEW v \in DOMAIN old
      PROVE  /\ VersionOK(versions[v]) /\ VersionForward(old[v], versions[v])
             /\ versions[v].status = "active" <=> v = request.version
  <2>1. Status(v) \in {"active", "inactive", old[v].status}
    OBVIOUS
  <2>2. Status(v) = "active" <=> v = request.version
    <3>1. CASE v = request.version
      <4>1. Status(v) = "active"
        BY <3>1
      <4> QED BY <3>1, <4>1
    <3>2. CASE v # request.version /\ old[v].status = "active"
      <4>1. Status(v) = "inactive"
        BY <3>2
      <4> QED BY <3>2, <4>1
    <3>3. CASE v # request.version /\ old[v].status # "active"
      <4>1. Status(v) = old[v].status
        BY <3>3
      <4> QED BY <3>3, <4>1
    <3> QED BY <3>1, <3>2, <3>3
  <2>3. versions[v] = [old[v] EXCEPT !.status = Status(v)]
    BY <1>3
  <2>4. VersionOK(old[v])
    BY <1>7
  <2> HIDE DEF Status, old
  <2>5. /\ VersionOK(versions[v]) /\ VersionForward(old[v], versions[v])
        /\ versions[v].status = Status(v)
    BY SMTT(60), <2>1, <2>3, <2>4, StatusForward
  <2> QED BY <2>2, <2>5
<1>10. FamilyForward(families[t][f], n)
  BY <1>8, <1>9 DEF FamilyForward
<1>11. FamilyOK(n)
  <2>1. NoVersion \notin DOMAIN old /\ request.version \in DOMAIN old /\ request.version # NoVersion
    BY <1>1 DEF FamilyOK
  <2>2. {v \in DOMAIN versions : versions[v].status = "active"} = {request.version}
    BY <1>8, <1>9, <2>1
  <2>3. versions = [v \in DOMAIN versions |-> versions[v]]
    BY <1>3, <1>8
  <2>4. n = [active |-> n.active, versions |-> n.versions]
    BY <1>4, <1>8
  <2> QED BY <1>8, <1>9, <2>1, <2>2, <2>3, <2>4 DEF FamilyOK
<1> QED BY <1>6, <1>10, <1>11

\* Every step of the plane, on the families.
PolicyInv == PolicyBodies /\ FamiliesInv

\* Every step keeps what is known of families, and takes each forward.
LEMMA PolicyStep ==
  ASSUME CoreInv, PolicyInv, [PlaneNext]_planeVars
  PROVE  /\ PolicyInv'
         /\ \A u \in Tenants : \A g \in DOMAIN families[u] :
              g \in DOMAIN families'[u] /\ FamilyForward(families[u][g], families'[u][g])
<1>0. \A u \in Tenants : \A g \in DOMAIN families[u] : FamilyForward(families[u][g], families[u][g])
  BY FamilyStays DEF PolicyInv, FamiliesInv
<1>1. PolicyBodies'
  <2> SUFFICES ASSUME service' = "policy", NEW s \in Slots, flight'[s].phase # "idle",
                      flight'[s].request.body.op = "createVersion"
               PROVE  flight'[s].request.body.fresh \in Nat
    BY DEF PolicyBodies
  <2>0. service' = service
    BY DEF PlaneNext, Forward, Admit, Refuse, Apply, ApplyMember, ApplyPolicy, ApplyEvent, ApplyExport,
           ApplyQuery, ApplyRegistration, ApplyIntegration, AnswerPrincipal, Done, Run, Decide, Tick,
           planeVars
  <2>1. CASE flight'[s].phase # "idle" => flight[s].phase # "idle" /\ flight'[s].request = flight[s].request
    BY <2>0, <2>1 DEF PolicyInv, PolicyBodies
  <2>2. ASSUME NEW slot \in Slots, NEW token \in Tokens, NEW claimed \in Tenants, NEW body \in Bodies,
               Forward(slot, token, claimed, body)
        PROVE  flight'[s].request.body.fresh \in Nat
    <3>1. PICK f : SlotOK(f) /\ f.request.body = body /\ flight' = [flight EXCEPT ![slot] = f]
      BY SMTT(60), <2>2, ForwardSends DEF CoreInv
    <3>2. flight'[slot] = f /\ \A u \in Slots : u # slot => flight'[u] = flight[u]
      BY <3>1 DEF CoreInv, FlightInv
    <3>3. body \in VersionRequests(forwarded + 1) /\ forwarded + 1 \in Nat
      BY <2>0 DEF Bodies, CoreInv, FlightInv
    <3>4. CASE s = slot
      <4>1. body.op = "createVersion" => body.fresh = forwarded + 1
        BY <3>3 DEF VersionRequests
      <4> QED BY <3>1, <3>2, <3>3, <3>4, <4>1
    <3> QED BY <2>1, <3>2, <3>4
  <2>3. ASSUME NEW slot \in Slots, Admit(slot) \/ Refuse(slot) \/ Apply(slot)
        PROVE  flight'[s].request.body.fresh \in Nat
    <3>1. PICK f : /\ flight' = [flight EXCEPT ![slot] = f]
                   /\ f.phase # "idle" => flight[slot].phase # "idle" /\ f.request = flight[slot].request
      BY <2>3, AdmitMarks, IdleSlot
         DEF CoreInv, Refuse, Apply, ApplyMember, ApplyPolicy, ApplyEvent, ApplyExport,
             ApplyQuery, ApplyRegistration, ApplyIntegration, AnswerPrincipal, Done
    <3>2. flight'[slot] = f /\ \A u \in Slots : u # slot => flight'[u] = flight[u]
      BY <3>1 DEF CoreInv, FlightInv
    <3> QED BY <2>1, <3>1, <3>2
  <2>4. CASE flight' = flight
    BY <2>1, <2>4
  <2> QED BY <2>2, <2>3, <2>4 DEF PlaneNext, Run, Decide, Tick, planeVars
<1>2. ASSUME NEW slot \in Slots, NEW r, r = flight[slot].request, ApplyPolicy(slot, r)
      PROVE  /\ FamiliesInv'
             /\ \A u \in Tenants : \A g \in DOMAIN families[u] :
                  g \in DOMAIN families'[u] /\ FamilyForward(families[u][g], families'[u][g])
  <2>1. r.tenant \in Tenants
    BY <1>2, DoneFrees DEF CoreInv, ApplyPolicy, Carries
  <2>2. CASE families' = families
    BY <1>0, <2>2 DEF PolicyInv, FamiliesInv
  <2>3. CASE r.body.op = "createVersion" /\ CreateVersion(r.tenant, r.body, r.principal, flight[slot].at)
    <3>1. r.body.fresh \in Nat
      BY <1>2, <2>3 DEF ApplyPolicy, Done, PolicyInv, PolicyBodies
    <3> QED BY <2>1, <2>3, <3>1, CreateForward, FamilyStored DEF PolicyInv
  <2>4. CASE ActivateVersion(r.tenant, r.body)
    BY <2>1, <2>4, ActivateForward, FamilyStored DEF PolicyInv
  <2> QED BY <1>2, <2>2, <2>3, <2>4 DEF ApplyPolicy, PolicyApply, ActivateMisses
<1>3. CASE families' = families
  BY <1>0, <1>1, <1>3 DEF PolicyInv, FamiliesInv
<1>4. families' = families \/ \E slot \in Slots : ApplyPolicy(slot, flight[slot].request)
  BY DEF PlaneNext, Forward, Admit, Refuse, Apply, ApplyMember, ApplyEvent, ApplyExport,
         ApplyQuery, ApplyRegistration, ApplyIntegration, AnswerPrincipal, Run, Decide, Tick,
         planeVars, storeVars
<1> QED BY <1>1, <1>2, <1>3, <1>4 DEF PolicyInv
-----------------------------------------------------------------------------
(* Isolation. *)

\* The maps by tenant, and the registrations.
TenantMaps ==
  /\ members = [t \in Tenants |-> members[t]]
  /\ integrations = [t \in Tenants |-> integrations[t]]
  /\ clusters \in Seq(Range(clusters))

\* A request of a client with a token of the tenant is done.
Acts(t) == \E s \in Slots : /\ flight[s].phase = "admitted" /\ flight'[s] = Idle
                            /\ TokenTenants[flight[s].token] = t

\* Create adds one registration to those that are there.
LEMMA RegistrationAdded ==
  ASSUME NEW s, s \in Seq(Range(s)), NEW e
  PROVE  Append(s, e) \in Seq(Range(Append(s, e))) /\ Range(Append(s, e)) = Range(s) \cup {e}
<1>1. PICK S : S = Range(s) \cup {e}
  OBVIOUS
<1>2. s \in Seq(S) /\ e \in S /\ Len(s) \in Nat /\ DOMAIN s = 1 .. Len(s)
  BY <1>1
<1>3. PICK a : a = Append(s, e)
  OBVIOUS
<1>4. /\ a \in Seq(S) /\ DOMAIN a = 1 .. Len(s) + 1
      /\ \A i \in 1 .. Len(s) : a[i] = s[i]
      /\ a[Len(s) + 1] = e
  BY <1>2, <1>3
<1>5. \A i \in 1 .. Len(s) + 1 : i \in 1 .. Len(s) \/ i = Len(s) + 1
  BY <1>2
<1>6. \A i \in 1 .. Len(s) : i \in 1 .. Len(s) + 1
  BY <1>2
<1>7. Len(s) + 1 \in 1 .. Len(s) + 1
  BY <1>2
<1>8. Range(a) = S
  BY <1>1, <1>2, <1>4, <1>5, <1>6, <1>7 DEF Range
<1> QED BY <1>1, <1>3, <1>4, <1>8

\* The members, clusters and integrations of a tenant change by its requests only.
LEMMA MapsStep ==
  ASSUME CoreInv, TenantMaps, [PlaneNext]_planeVars
  PROVE  /\ TenantMaps'
         /\ \A t \in Tenants : \/ /\ members'[t] = members[t] /\ integrations'[t] = integrations[t]
                                  /\ ListClusters(t)' = ListClusters(t)
                               \/ Acts(t)
<1>0. ASSUME NEW slot \in Slots, Done(slot) PROVE Acts(flight[slot].request.tenant)
  BY <1>0, DoneFrees DEF CoreInv, Carries, Acts
<1>1. CASE UNCHANGED <<members, integrations, clusters>>
  BY <1>1 DEF TenantMaps, ListClusters
<1>2. ASSUME NEW slot \in Slots, NEW r, r = flight[slot].request, ApplyMember(slot, r)
      PROVE  /\ TenantMaps'
             /\ \A t \in Tenants : \/ /\ members'[t] = members[t] /\ integrations'[t] = integrations[t]
                                      /\ ListClusters(t)' = ListClusters(t)
                                   \/ Acts(t)
  <2>1. PICK m : members' = [members EXCEPT ![r.tenant] = m]
    BY <1>2 DEF ApplyMember, TenantApply, UpsertMember, DeleteMember
  <2>2. /\ UNCHANGED <<clusters, integrations>> /\ Acts(r.tenant)
    BY <1>0, <1>2 DEF ApplyMember
  <2>3. members' = [t \in Tenants |-> members'[t]] /\ \A t \in Tenants : t # r.tenant => members'[t] = members[t]
    BY <2>1 DEF TenantMaps
  <2> QED BY <2>2, <2>3 DEF TenantMaps, ListClusters
<1>3. ASSUME NEW slot \in Slots, NEW r, r = flight[slot].request, ApplyIntegration(slot, r)
      PROVE  /\ TenantMaps'
             /\ \A t \in Tenants : \/ /\ members'[t] = members[t] /\ integrations'[t] = integrations[t]
                                      /\ ListClusters(t)' = ListClusters(t)
                                   \/ Acts(t)
  <2>1. /\ integrations' = [t \in Tenants |-> integrations'[t]]
        /\ \A t \in Tenants : t # r.tenant => integrations'[t] = integrations[t]
    <3>1. CASE \E m : integrations' = [integrations EXCEPT ![r.tenant] = m]
      BY <3>1 DEF TenantMaps
    <3>2. CASE integrations' = integrations
      BY <3>2 DEF TenantMaps
    <3>3. CASE CreateIntegration(r.tenant, r.body, r.id, r.principal, flight[slot].at)
      BY <3>1, <3>3 DEF CreateIntegration
    <3>4. CASE ValidateIntegration(r.tenant, r.body, flight[slot].at)
      <4>1. CASE r.body.id \in DOMAIN integrations[r.tenant]
        <5> DEFINE at == flight[slot].at
        <5>1. integrations' =
                [integrations EXCEPT ![r.tenant][r.body.id].status = "validated",
                   ![r.tenant][r.body.id].lastValidated = at, ![r.tenant][r.body.id].updatedAt = at]
          BY <3>4, <4>1 DEF ValidateIntegration
        <5>2. PICK x : x = [integrations EXCEPT ![r.tenant][r.body.id].status = "validated"]
          OBVIOUS
        <5>3. PICK y : y = [x EXCEPT ![r.tenant][r.body.id].lastValidated = at]
          OBVIOUS
        <5>4. integrations' = [y EXCEPT ![r.tenant][r.body.id].updatedAt = at]
          BY <5>1, <5>2, <5>3
        <5>5. x = [t \in Tenants |-> x[t]] /\ \A t \in Tenants : t # r.tenant => x[t] = integrations[t]
          BY <5>2 DEF TenantMaps
        <5>6. y = [t \in Tenants |-> y[t]] /\ \A t \in Tenants : t # r.tenant => y[t] = x[t]
          BY <5>3, <5>5
        <5> QED BY <5>4, <5>5, <5>6
      <4> QED BY <3>2, <3>4, <4>1 DEF ValidateIntegration
    <3> QED BY <1>3, <3>3, <3>4 DEF ApplyIntegration, IntegrationApply
  <2>2. UNCHANGED <<members, clusters>> /\ Acts(r.tenant)
    BY <1>0, <1>3 DEF ApplyIntegration
  <2> QED BY <2>1, <2>2 DEF TenantMaps, ListClusters
<1>4. ASSUME NEW slot \in Slots, NEW r, r = flight[slot].request, ApplyRegistration(slot, r)
      PROVE  /\ TenantMaps'
             /\ \A t \in Tenants : \/ /\ members'[t] = members[t] /\ integrations'[t] = integrations[t]
                                      /\ ListClusters(t)' = ListClusters(t)
                                   \/ Acts(t)
  <2>1. PICK e : clusters' = Append(clusters, e) /\ e.tenant = r.tenant
    BY <1>4 DEF ApplyRegistration, RegisterCluster
  <2>2. UNCHANGED <<members, integrations>> /\ Acts(r.tenant)
    BY <1>0, <1>4 DEF ApplyRegistration
  <2>3. clusters' \in Seq(Range(clusters')) /\ Range(clusters') = Range(clusters) \cup {e}
    BY <2>1, RegistrationAdded DEF TenantMaps
  <2>4. ASSUME NEW t \in Tenants, t # r.tenant PROVE ListClusters(t)' = ListClusters(t)
    <3>1. {c \in Range(clusters') : c.tenant = t} = {c \in Range(clusters) : c.tenant = t}
      BY <2>1, <2>3, <2>4
    <3> QED BY <3>1 DEF ListClusters
  <2> QED BY <2>2, <2>3, <2>4 DEF TenantMaps
<1>5. \/ UNCHANGED <<members, integrations, clusters>>
      \/ \E slot \in Slots : \/ ApplyMember(slot, flight[slot].request)
                             \/ ApplyIntegration(slot, flight[slot].request)
                             \/ ApplyRegistration(slot, flight[slot].request)
  <2>1. ASSUME NEW slot \in Slots, NEW token, NEW claimed, NEW body,
               Forward(slot, token, claimed, body) \/ Admit(slot) \/ Refuse(slot)
        PROVE  UNCHANGED <<members, integrations, clusters>>
    BY <2>1 DEF Forward, Admit, Refuse, storeVars
  <2>2. ASSUME NEW slot \in Slots, NEW r,
               \/ ApplyPolicy(slot, r) \/ ApplyEvent(slot, r) \/ ApplyExport(slot, r)
               \/ ApplyQuery(slot, r) \/ AnswerPrincipal(slot)
        PROVE  UNCHANGED <<members, integrations, clusters>>
    BY <2>2 DEF ApplyPolicy, ApplyEvent, ApplyExport, ApplyQuery, AnswerPrincipal, storeVars
  <2>3. ASSUME NEW id, Run(id) \/ Decide \/ Tick \/ UNCHANGED planeVars
        PROVE  UNCHANGED <<members, integrations, clusters>>
    BY <2>3 DEF Run, Decide, Tick, planeVars, storeVars
  <2> QED BY <2>1, <2>2, <2>3 DEF PlaneNext, Apply
<1> QED BY <1>1, <1>2, <1>3, <1>4, <1>5

\* So do the policies of a tenant.
LEMMA FamiliesOfOthers ==
  ASSUME CoreInv, PolicyInv, [PlaneNext]_planeVars, NEW t \in Tenants
  PROVE  families'[t] = families[t] \/ Acts(t)
<1>1. CASE families' = families
  BY <1>1
<1>2. ASSUME NEW slot \in Slots, NEW r, r = flight[slot].request, ApplyPolicy(slot, r)
      PROVE  families'[t] = families[t] \/ Acts(t)
  <2>1. Acts(r.tenant)
    BY <1>2, DoneFrees DEF CoreInv, Carries, Acts, ApplyPolicy
  <2>2. \/ families' = families
        \/ \E m : families' = [families EXCEPT ![r.tenant] = m]
        \/ \E f, m : families' = [families EXCEPT ![r.tenant][f] = m]
    BY <1>2 DEF ApplyPolicy, PolicyApply, CreateVersion, ActivateVersion, ActivateMisses
  <2>3. t # r.tenant => families'[t] = families[t]
    BY <2>2 DEF PolicyInv, FamiliesInv
  <2> QED BY <2>1, <2>3
<1>3. families' = families \/ \E slot \in Slots : ApplyPolicy(slot, flight[slot].request)
  BY DEF PlaneNext, Forward, Admit, Refuse, Apply, ApplyMember, ApplyEvent, ApplyExport,
         ApplyQuery, ApplyRegistration, ApplyIntegration, AnswerPrincipal, Run, Decide, Tick,
         planeVars, storeVars
<1> QED BY <1>1, <1>2, <1>3

\* A new job is shown to the tenant of the request that created it.
LEMMA NewJobIsOfItsTenant ==
  ASSUME CoreInv, [PlaneNext]_planeVars, NEW t \in Tenants,
         NEW id \in DOMAIN jobs' \ DOMAIN jobs, Found(t, id)'
  PROVE  \E s \in Slots : /\ flight[s].phase = "admitted" /\ flight[s].request.id = id
                          /\ TokenTenants[flight[s].token] = t
<1>1. ASSUME NEW slot \in Slots, NEW r, r = flight[slot].request,
             ApplyExport(slot, r) \/ ApplyQuery(slot, r)
      PROVE  \E s \in Slots : /\ flight[s].phase = "admitted" /\ flight[s].request.id = id
                              /\ TokenTenants[flight[s].token] = t
  <2>1. id = r.id /\ jobs'[id].tenant = r.tenant
    BY <1>1, JobApplied
  <2>2. Carries(flight[slot]) /\ flight[slot].phase = "admitted"
    BY <1>1, DoneFrees DEF CoreInv, ApplyExport, ApplyQuery
  <2> QED BY <1>1, <2>1, <2>2 DEF Carries, Found
<1>2. ASSUME NEW i \in DOMAIN runners, Run(i) PROVE FALSE
  BY <1>2, RunKeepsJobs DEF CoreInv, Run
<1>3. jobs' # jobs
  OBVIOUS
<1> QED BY <1>1, <1>2, <1>3
        DEF PlaneNext, Forward, Admit, Refuse, Apply, ApplyMember, ApplyPolicy, ApplyEvent,
            ApplyRegistration, ApplyIntegration, AnswerPrincipal, Decide, Tick, planeVars, storeVars
-----------------------------------------------------------------------------
(* The audit log and the registrations. *)

\* The store's list is the end of everything appended.
LogInv ==
  /\ appended \in Seq(Range(appended)) /\ events \in Seq(Range(appended))
  /\ Len(events) = IF Len(appended) < MaxEvents THEN Len(appended) ELSE MaxEvents
  /\ \A i \in 1 .. Len(events) : events[i] = appended[Len(appended) - Len(events) + i]

\* Registrations show times in the order of the lock, none after the clock.
RegistryInv ==
  /\ \A i \in 1 .. Len(clusters) : clusters[i].createdAt \in Nat /\ clusters[i].createdAt <= time
  /\ \A i, j \in 1 .. Len(clusters) : i < j => clusters[i].createdAt <= clusters[j].createdAt

\* The list with the event at its end, cut at the front.
LEMMA EventKept ==
  ASSUME LogInv, NEW t, NEW request, NEW id, NEW now, AppendEvent(t, request, id, now)
  PROVE  LogInv'
<1> DEFINE e == [id |-> id, tenant |-> t, resource |-> request.resource,
                 outcome |-> NormalizedOutcome[request.outcome], occurredAt |-> now]
<1>1. /\ events' = IF Len(Append(events, e)) > MaxEvents
                   THEN SubSeq(Append(events, e), Len(Append(events, e)) - MaxEvents + 1,
                               Len(Append(events, e))) ELSE Append(events, e)
      /\ appended' = Append(appended, e)
  BY DEF AppendEvent
<1> HIDE DEF e
<1>2. appended' \in Seq(Range(appended')) /\ Range(appended') = Range(appended) \cup {e}
  BY <1>1, RegistrationAdded DEF LogInv
<1>3. PICK S : S = Range(appended')
  OBVIOUS
<1>4. appended \in Seq(S) /\ events \in Seq(S) /\ e \in S
  BY <1>2, <1>3 DEF LogInv
<1>5. PICK all : all = Append(events, e)
  OBVIOUS
<1>6. /\ all \in Seq(S) /\ Len(all) = Len(events) + 1 /\ Len(events) \in Nat
      /\ \A i \in 1 .. Len(events) : all[i] = events[i]
      /\ all[Len(events) + 1] = e
  BY SMTT(60), <1>4, <1>5
<1>7. /\ Len(appended') = Len(appended) + 1 /\ Len(appended) \in Nat
      /\ \A i \in 1 .. Len(appended) : appended'[i] = appended[i]
      /\ appended'[Len(appended) + 1] = e
  BY SMTT(60), <1>1, <1>4
<1>8. Len(events) = IF Len(appended) < MaxEvents THEN Len(appended) ELSE MaxEvents
  BY DEF LogInv
<1>9. \A i \in 1 .. Len(all) : all[i] = appended'[Len(appended') - Len(all) + i]
  <2> SUFFICES ASSUME NEW i \in 1 .. Len(all) PROVE all[i] = appended'[Len(appended') - Len(all) + i]
    OBVIOUS
  <2>1. CASE i = Len(events) + 1
    BY SMTT(60), <1>6, <1>7, <2>1
  <2>2. CASE i \in 1 .. Len(events)
    <3>1. all[i] = appended[Len(appended) - Len(events) + i]
      BY <1>6, <2>2 DEF LogInv
    <3>2. Len(appended) - Len(events) + i \in 1 .. Len(appended)
      BY SMTT(60), <1>6, <1>7, <1>8, <2>2, AuditAssumption
    <3>3. Len(appended') - Len(all) + i = Len(appended) - Len(events) + i
      BY SMTT(60), <1>6, <1>7, <2>2
    <3> QED BY <1>7, <3>1, <3>2, <3>3
  <2> QED BY SMTT(60), <1>6, <2>1, <2>2
<1>10. CASE ~(Len(all) > MaxEvents)
  <2>1. events' = all
    BY <1>1, <1>5, <1>10
  <2>2. Len(all) = IF Len(appended') < MaxEvents THEN Len(appended') ELSE MaxEvents
    BY SMTT(60), <1>6, <1>7, <1>8, <1>10, AuditAssumption
  <2> QED BY <1>2, <1>3, <1>6, <1>9, <2>1, <2>2 DEF LogInv
<1>11. CASE Len(all) > MaxEvents
  <2>1. events' = SubSeq(all, Len(all) - MaxEvents + 1, Len(all))
    BY <1>1, <1>5, <1>11
  <2>2. Len(all) = MaxEvents + 1 /\ Len(all) - MaxEvents + 1 = 2 /\ MaxEvents \in Nat
    BY SMTT(60), <1>6, <1>7, <1>8, <1>11, AuditAssumption
  <2>3. events' = SubSeq(all, 2, Len(all))
    BY <2>1, <2>2
  <2>4. /\ events' \in Seq(S) /\ Len(events') = MaxEvents
        /\ \A i \in 1 .. MaxEvents : events'[i] = all[i + 1]
    BY SMTT(60), <1>6, <2>2, <2>3
  <2>5. ASSUME NEW i \in 1 .. MaxEvents
        PROVE  events'[i] = appended'[Len(appended') - MaxEvents + i]
    <3>1. i + 1 \in 1 .. Len(all) /\ Len(appended') - Len(all) + (i + 1) = Len(appended') - MaxEvents + i
      BY SMTT(60), <1>7, <2>2
    <3> QED BY <1>9, <2>4, <3>1
  <2>6. MaxEvents = IF Len(appended') < MaxEvents THEN Len(appended') ELSE MaxEvents
    BY SMTT(60), <1>6, <1>7, <1>8, <2>2
  <2> QED BY <1>2, <1>3, <2>4, <2>5, <2>6 DEF LogInv
<1> QED BY <1>10, <1>11

\* Create appends a registration that shows the time of the clock.
LEMMA RegistrationKept ==
  ASSUME RegistryInv, time \in Nat, time' = time, clusters \in Seq(Range(clusters)),
         NEW e, e.createdAt = time, clusters' = Append(clusters, e)
  PROVE  RegistryInv'
<1>1. PICK S : S = Range(clusters) \cup {e}
  OBVIOUS
<1>2. clusters \in Seq(S) /\ e \in S
  BY <1>1
<1>3. /\ Len(clusters') = Len(clusters) + 1 /\ Len(clusters) \in Nat
      /\ \A i \in 1 .. Len(clusters) : clusters'[i] = clusters[i]
      /\ clusters'[Len(clusters) + 1] = e
  BY SMTT(60), <1>2
<1>4. ASSUME NEW i \in 1 .. Len(clusters')
      PROVE  clusters'[i].createdAt \in Nat /\ clusters'[i].createdAt <= time
  <2>1. i \in 1 .. Len(clusters) \/ i = Len(clusters) + 1
    BY SMTT(60), <1>3
  <2> QED BY SMTT(60), <1>3, <2>1 DEF RegistryInv
<1>5. ASSUME NEW i \in 1 .. Len(clusters'), NEW j \in 1 .. Len(clusters'), i < j
      PROVE  clusters'[i].createdAt <= clusters'[j].createdAt
  <2>1. i \in 1 .. Len(clusters) /\ (j \in 1 .. Len(clusters) \/ j = Len(clusters) + 1)
    BY SMTT(60), <1>3, <1>5
  <2> QED BY <1>3, <1>5, <2>1 DEF RegistryInv
<1> QED BY <1>4, <1>5 DEF RegistryInv

\* No other step touches the log or the registrations, and the clock only goes on.
LEMMA LogStep ==
  ASSUME CoreInv, TenantMaps, LogInv, RegistryInv, [PlaneNext]_planeVars
  PROVE  LogInv' /\ RegistryInv'
<1>1. time \in Nat /\ service \in Services
  BY DEF CoreInv, FlightInv
<1>2. UNCHANGED <<events, appended>> => LogInv'
  BY DEF LogInv
<1>3. UNCHANGED <<clusters, time>> => RegistryInv'
  BY DEF RegistryInv
<1>4. ASSUME NEW slot \in Slots, NEW r, ApplyEvent(slot, r) PROVE LogInv' /\ RegistryInv'
  <2>1. /\ AppendEvent(r.tenant, r.body, r.id, flight[slot].at)
        /\ UNCHANGED <<clusters, time>>
    BY <1>4 DEF ApplyEvent, Done
  <2>2. LogInv'
    BY <2>1, EventKept
  <2> QED BY <1>3, <2>1, <2>2
<1>5. ASSUME NEW slot \in Slots, NEW r, ApplyRegistration(slot, r) PROVE LogInv' /\ RegistryInv'
  <2>1. /\ RegisterCluster(r.tenant, r.body, r.id, flight[slot].at, time)
        /\ UNCHANGED <<events, appended, time>>
    BY <1>5 DEF ApplyRegistration, Done
  <2>2. PICK e : clusters' = Append(clusters, e) /\ e.createdAt = time
    BY <2>1 DEF RegisterCluster
  <2>3. RegistryInv'
    BY <1>1, <2>1, <2>2, RegistrationKept DEF TenantMaps
  <2> QED BY <1>2, <2>1, <2>3
<1>6. CASE Tick
  <2>1. UNCHANGED <<events, appended, clusters>>
    BY <1>6 DEF Tick, storeVars
  <2>2. time' \in Nat /\ time' > time
    BY <1>1, <1>6, PlaneAssumption DEF Tick
  <2>3. ASSUME NEW i \in 1 .. Len(clusters)
        PROVE  clusters[i].createdAt \in Nat /\ clusters[i].createdAt <= time'
    <3>1. clusters[i].createdAt \in Nat /\ clusters[i].createdAt <= time
      BY DEF RegistryInv
    <3> QED BY SMTT(60), <1>1, <2>2, <3>1
  <2>4. RegistryInv'
    BY <2>1, <2>3 DEF RegistryInv
  <2> QED BY <1>2, <2>1, <2>4
<1>7. ASSUME NEW slot \in Slots, NEW token, NEW claimed, NEW body,
             Forward(slot, token, claimed, body) \/ Admit(slot) \/ Refuse(slot)
      PROVE  UNCHANGED <<events, appended, clusters, time>>
  BY <1>7 DEF Forward, Admit, Refuse, storeVars
<1>8. ASSUME NEW slot \in Slots, NEW r,
             \/ ApplyMember(slot, r) \/ ApplyPolicy(slot, r) \/ ApplyExport(slot, r)
             \/ ApplyQuery(slot, r) \/ ApplyIntegration(slot, r) \/ AnswerPrincipal(slot)
      PROVE  UNCHANGED <<events, appended, clusters, time>>
  BY <1>8 DEF ApplyMember, ApplyPolicy, ApplyExport, ApplyQuery, ApplyIntegration,
              AnswerPrincipal, Done, storeVars
<1>9. ASSUME NEW id, Run(id) \/ Decide \/ UNCHANGED planeVars
      PROVE  UNCHANGED <<events, appended, clusters, time>>
  BY <1>9 DEF Run, Decide, planeVars, storeVars
<1>10. \/ UNCHANGED <<events, appended, clusters, time>> \/ Tick
       \/ \E slot \in Slots : \/ ApplyEvent(slot, flight[slot].request)
                              \/ ApplyRegistration(slot, flight[slot].request)
  BY <1>7, <1>8, <1>9 DEF PlaneNext, Apply
<1> QED BY <1>2, <1>3, <1>4, <1>5, <1>6, <1>10
-----------------------------------------------------------------------------
(* The theorems. *)

\* Requests, jobs, policies and the maps by tenant are what the steps need.
PlaneInv == CoreInv /\ PolicyInv /\ TenantMaps /\ LogInv /\ RegistryInv

\* The invariant holds before the first request.
LEMMA PlaneStarts == ASSUME PlaneInit PROVE PlaneInv
<1>1. FlightInv /\ \A s \in Slots : flight[s] = Idle
  BY IdleSlot DEF PlaneInit, FlightInv
<1>2. jobs = <<>> /\ order = <<>> /\ runners = <<>>
  BY DEF PlaneInit, JobsInit
<1>3. DOMAIN jobs = {} /\ DOMAIN runners = {} /\ Range(order) = {}
  BY <1>2 DEF Range
<1>4. IdInv
  BY <1>1, <1>3, IdleSlot DEF IdInv, Busy
<1>5. OrderInv
  <2>1. order \in Seq(Nat) /\ Len(order) = 0 /\ Len(order) <= MaxJobs
    BY <1>2, JobsAssumption
  <2>2. IsInjective(order)
    BY SMTT(60), <1>2 DEF IsInjective
  <2>3. jobs = [i \in Range(order) |-> jobs[i]]
    BY <1>2, <1>3
  <2> QED BY <1>3, <2>1, <2>2, <2>3 DEF OrderInv
<1>6. RunnerInv
  <2>1. runners = [i \in DOMAIN runners |-> runners[i]]
    BY <1>2
  <2> QED BY <1>3, <2>1 DEF RunnerInv
<1>7. PolicyInv
  <2>1. families = [t \in Tenants |-> <<>>]
    BY DEF PlaneInit, PolicyInit
  <2>2. FamiliesInv
    BY <2>1 DEF FamiliesInv
  <2> QED BY <1>1, <2>2, IdleSlot DEF PolicyInv, PolicyBodies
<1>8. TenantMaps
  <2>1. members = [t \in Tenants |-> <<>>] /\ integrations = [t \in Tenants |-> <<>>] /\ clusters = <<>>
    BY DEF PlaneInit, TenantInit, IntegrationInit, RegistryInit
  <2> QED BY <2>1 DEF TenantMaps
<1>9. LogInv /\ RegistryInv
  <2>1. events = <<>> /\ appended = <<>> /\ clusters = <<>>
    BY DEF PlaneInit, AuditInit, RegistryInit
  <2>2. LogInv
    BY SMTT(60), <2>1, AuditAssumption DEF LogInv
  <2>3. RegistryInv
    BY SMTT(60), <2>1 DEF RegistryInv
  <2> QED BY <2>2, <2>3
<1> QED BY <1>1, <1>4, <1>5, <1>6, <1>7, <1>8, <1>9 DEF PlaneInv, CoreInv, JobsInv

\* The invariant the theorems rest on.
LEMMA PlaneInvariant == PlaneSpec => []PlaneInv
<1>1. PlaneInv /\ [PlaneNext]_planeVars => PlaneInv'
  BY CoreStep, PolicyStep, MapsStep, LogStep DEF PlaneInv
<1> QED BY <1>1, PlaneStarts, PTL DEF PlaneSpec

\* What a tenant reads changes only by a request made with a token of that
\* tenant, no step shows it a job of another, and the identity service tells
\* each client who its own token is for (authenticate, ApplyHeaders, and the
\* tenant argument of every store operation).
THEOREM PlaneTenantsAreIsolated == PlaneSpec => TenantsAreIsolated
<1> DEFINE Isolated ==
      \A t \in Tenants :
        /\ View(t)' # View(t) =>
             \E s \in Slots : /\ flight[s].phase = "admitted" /\ flight'[s] = Idle
                              /\ TokenTenants[flight[s].token] = t
        /\ \A id \in DOMAIN jobs' \ DOMAIN jobs : Found(t, id)' =>
             \E s \in Slots : /\ flight[s].phase = "admitted" /\ flight[s].request.id = id
                              /\ TokenTenants[flight[s].token] = t
        /\ \A s \in Slots : service = "identity" /\ flight'[s].phase = "admitted" =>
             /\ flight'[s].request.tenant = TokenTenants[flight'[s].token]
             /\ flight'[s].request.principal = TokenPrincipals[flight'[s].token]
<1>1. ASSUME PlaneInv, PlaneInv', [PlaneNext]_planeVars PROVE Isolated
  <2> SUFFICES ASSUME NEW t \in Tenants
               PROVE  /\ View(t)' # View(t) => Acts(t)
                      /\ \A s \in Slots : flight'[s].phase = "admitted" => Carries(flight'[s])
    BY <1>1, NewJobIsOfItsTenant DEF Acts, Carries, PlaneInv
  <2>1. View(t)' # View(t) => Acts(t)
    <3>1. \/ /\ members'[t] = members[t] /\ integrations'[t] = integrations[t]
             /\ ListClusters(t)' = ListClusters(t)
          \/ Acts(t)
      BY <1>1, MapsStep DEF PlaneInv
    <3>2. families'[t] = families[t] \/ Acts(t)
      BY <1>1, FamiliesOfOthers DEF PlaneInv
    <3> QED BY <3>1, <3>2 DEF View, Members, Families
  <2>2. \A s \in Slots : flight'[s].phase = "admitted" => Carries(flight'[s])
    BY <1>1 DEF PlaneInv, CoreInv, FlightInv, SlotOK
  <2> QED BY <2>1, <2>2
<1>2. PlaneSpec => [][Isolated]_planeVars
  BY <1>1, PlaneInvariant, PTL DEF PlaneSpec
<1> QED BY <1>2 DEF TenantsAreIsolated

\* What the stores have settled stays: versions keep what they say and never are
\* drafts again, finished jobs keep their result (CreateVersion's conflict, and
\* start, succeed and fail, which touch only a job that is there).
THEOREM PlaneStoresOnlyGoForward == PlaneSpec => StoresOnlyGoForward
<1> DEFINE Jobs == \A id \in DOMAIN jobs \cap DOMAIN jobs' :
                     LET old == jobs[id]
                         new == jobs'[id]
                     IN  /\ <<old.status, new.status>> \in {<<"queued", "running">>, <<"running", "succeeded">>,
                               <<"running", "failed">>} \cup {<<s, s>> : s \in {"queued", "running", "succeeded", "failed"}}
                         /\ old.status \in {"succeeded", "failed"} => new = old
                         /\ (new.status = "succeeded") <=> (new.manifest # NoManifest)
           Versions == \A t \in Tenants : \A f \in DOMAIN families[t] :
                         \A v \in DOMAIN families[t][f].versions :
                           LET old == families[t][f].versions[v]
                               new == families'[t][f].versions[v]
                           IN  /\ v \in DOMAIN families'[t][f].versions
                               /\ [new EXCEPT !.status = old.status] = old
                               /\ old.status # "draft" => new.status # "draft"
<1>1. ASSUME PlaneInv, [PlaneNext]_planeVars PROVE Jobs
  BY <1>1, CoreStep DEF PlaneInv, JobForward
<1>2. ASSUME PlaneInv, [PlaneNext]_planeVars PROVE Versions
  BY <1>2, PolicyStep DEF PlaneInv, FamilyForward, VersionForward
<1>3. PlaneSpec => [][Jobs]_jobs /\ [][Versions]_families
  <2>1. PlaneInv /\ [PlaneNext]_planeVars => [Jobs]_jobs /\ [Versions]_families
    BY <1>1, <1>2
  <2> QED BY <2>1, PlaneInvariant, PTL DEF PlaneSpec
<1> QED BY <1>3 DEF StoresOnlyGoForward, VersionsAreImmutable, JobsGoForward

\* A family's recorded active version is its one active version, however
\* creations and activations interleave (ActivateVersion).
THEOREM PlaneOneActiveVersion == PlaneSpec => []OneActiveVersion
<1>1. PlaneInv => OneActiveVersion
  BY DEF PlaneInv, PolicyInv, FamiliesInv, FamilyOK, OneActiveVersion
<1> QED BY <1>1, PlaneInvariant, PTL

\* The map and the order of creation of a job store hold the same jobs, each
\* once, and no more than MaxJobs: an evicted job stays gone, also when its
\* goroutine ends later (evictLocked, succeed, fail).
THEOREM PlaneStoreIsBounded == PlaneSpec => []StoreIsBounded
<1>1. ASSUME PlaneInv PROVE StoreIsBounded
  <2>1. order \in Seq(Nat) /\ IsInjective(order) /\ Len(order) <= MaxJobs /\ DOMAIN jobs = Range(order)
    BY <1>1 DEF PlaneInv, CoreInv, JobsInv, OrderInv
  <2>2. Len(order) \in Nat /\ DOMAIN order = 1 .. Len(order) /\ order \in [1 .. Len(order) -> Range(order)]
    BY SMTT(60), <2>1 DEF Range
  <2>3. order \in Bijection(1 .. Len(order), Range(order))
    BY <2>1, <2>2 DEF Bijection, Injection, Surjection, IsInjective, Range
  <2>4. IsFiniteSet(1 .. Len(order)) /\ Cardinality(1 .. Len(order)) = Len(order)
    BY <2>2, FS_Interval
  <2>5. Cardinality(Range(order)) = Len(order)
    BY <2>3, <2>4, FS_Bijection DEF ExistsBijection
  <2> QED BY <2>1, <2>5 DEF StoreIsBounded
<1> QED BY <1>1, PlaneInvariant, PTL

\* The audit store holds the end of the log of all tenants, whole and in the order
\* of its lock, for any bound and any number of appends (Append).
THEOREM PlaneLogIsLatest == PlaneSpec => []LogIsLatest
<1>1. ASSUME PlaneInv PROVE LogIsLatest
  <2>1. LogInv
    BY <1>1 DEF PlaneInv
  <2>2. PICK S : S = Range(appended)
    OBVIOUS
  <2>3. /\ appended \in Seq(S) /\ events \in Seq(S)
        /\ Len(events) \in Nat /\ Len(appended) \in Nat /\ Len(events) <= Len(appended)
    BY <2>1, <2>2, AuditAssumption DEF LogInv
  <2> DEFINE from == Len(appended) - Len(events) + 1
             end == SubSeq(appended, from, Len(appended))
  <2>4. /\ end \in Seq(S) /\ Len(end) = Len(events)
        /\ \A i \in 1 .. Len(events) : end[i] = appended[Len(appended) - Len(events) + i]
    BY SMTT(60), <2>3
  <2>5. \A i \in 1 .. Len(events) : end[i] = events[i]
    BY <2>1, <2>4 DEF LogInv
  <2> HIDE DEF end
  <2>6. events = end
    BY SMTT(60), <2>3, <2>4, <2>5
  <2> QED BY <2>1, <2>6 DEF LogIsLatest, LogInv, end
<1> QED BY <1>1, PlaneInvariant, PTL

\* Of two clusters the one that was registered first has the token that expires
\* first, however registrations and the clock interleave (Create reads the clock
\* while it holds the lock).
THEOREM PlaneTokensExpireInOrder == PlaneSpec => []TokensExpireInOrder
<1>1. ASSUME PlaneInv PROVE TokensExpireInOrder
  <2>1. /\ clusters \in Seq(Range(clusters)) /\ RegistryInv
    BY <1>1 DEF PlaneInv, TenantMaps
  <2>2. DOMAIN clusters = 1 .. Len(clusters)
    BY SMTT(60), <2>1
  <2>3. ASSUME NEW i \in 1 .. Len(clusters), NEW j \in 1 .. Len(clusters), i < j
        PROVE  TokenExpiresAt(clusters[i]) <= TokenExpiresAt(clusters[j])
    <3>1. /\ clusters[i].createdAt \in Nat /\ clusters[j].createdAt \in Nat
          /\ clusters[i].createdAt <= clusters[j].createdAt
      BY <2>1, <2>3 DEF RegistryInv
    <3> QED BY SMTT(60), <3>1, EnrollmentAssumption DEF TokenExpiresAt
  <2> QED BY <2>2, <2>3 DEF TokensExpireInOrder
<1> QED BY <1>1, PlaneInvariant, PTL
=============================================================================
