----------------------- MODULE ProviderGatewayProofs -----------------------
(***************************************************************************)
(* What is proved about ProviderGateway for every set of routes, requests  *)
(* and tasks, every configuration of chains, and every limit: the fallback *)
(* loop keeps its limit and leaves a route only for a reason, and a route  *)
(* that goes on failing is spared until its reset timeout has passed.      *)
(***************************************************************************)
EXTENDS ProviderGateway, TLAPS, FiniteSetTheorems

-----------------------------------------------------------------------------
(* The live calls among the tries.                                         *)
LEMMA LiveOfNone == Live(<<>>) = 0
<1>1. {j \in DOMAIN <<>> : <<>>[j] # "skipped"} = {}
  OBVIOUS
<1> QED
  BY <1>1, FS_EmptySet DEF Live

LEMMA LiveIsNat == ASSUME NEW tries \in Seq(Verdict) PROVE Live(tries) \in Nat
<1>1. {j \in DOMAIN tries : tries[j] # "skipped"} \subseteq 1..Len(tries)
  OBVIOUS
<1>2. IsFiniteSet(1..Len(tries))
  BY FS_Interval
<1> QED
  BY <1>1, <1>2, FS_Subset, FS_CardinalityType DEF Live

LEMMA LiveOfOneMore ==
    ASSUME NEW tries \in Seq(Verdict), NEW v \in Verdict \ {"skipped"}
    PROVE  Live(Append(tries, v)) = Live(tries) + 1
<1> DEFINE calls == {j \in DOMAIN tries : tries[j] # "skipped"}
           n == Len(tries) + 1
<1>1. {j \in DOMAIN Append(tries, v) : Append(tries, v)[j] # "skipped"} = calls \cup {n}
  <2>1. DOMAIN Append(tries, v) = 1..n /\ DOMAIN tries = 1..(n - 1) /\ n \in Nat \ {0}
    OBVIOUS
  <2>2. Append(tries, v)[n] = v /\ \A j \in 1..(n - 1) : Append(tries, v)[j] = tries[j]
    OBVIOUS
  <2> QED
    BY <2>1, <2>2
<1>2. n \notin calls /\ calls \subseteq 1..Len(tries)
  OBVIOUS
<1>3. IsFiniteSet(calls)
  BY <1>2, FS_Interval, FS_Subset
<1> HIDE DEF calls, n
<1>4. Cardinality(calls \cup {n}) = Cardinality(calls) + 1
  BY <1>2, <1>3, FS_AddElement
<1> QED
  BY <1>1, <1>4 DEF Live, calls

LEMMA SkipsAreTries ==
    ASSUME NEW tries \in Seq(Verdict), NEW n \in Nat
    PROVE  LET more == tries \o Skips(n)
           IN  /\ more \in Seq(Verdict)
               /\ Len(more) = Len(tries) + n
               /\ \A j \in 1..Len(tries) : more[j] = tries[j]
               /\ \A j \in (Len(tries) + 1)..(Len(tries) + n) : more[j] = "skipped"
               /\ Live(more) = Live(tries)
<1> DEFINE more == tries \o Skips(n)
<1>1. Skips(n) \in Seq(Verdict) /\ Len(Skips(n)) = n /\ \A j \in 1..n : Skips(n)[j] = "skipped"
  BY DEF Skips, Verdict
<1>2. more \in Seq(Verdict) /\ Len(more) = Len(tries) + n
  BY <1>1
<1>3. \A j \in 1..Len(tries) : more[j] = tries[j]
  BY <1>1
<1>4. \A j \in (Len(tries) + 1)..(Len(tries) + n) : more[j] = "skipped"
  BY <1>1
<1>5. {j \in DOMAIN more : more[j] # "skipped"} = {j \in DOMAIN tries : tries[j] # "skipped"}
  <2> HIDE DEF more
  <2>1. DOMAIN more = 1..(Len(tries) + n) /\ DOMAIN tries = 1..Len(tries) /\ Len(tries) \in Nat
    BY <1>2
  <2>2. \A j \in DOMAIN more : j \in 1..Len(tries) \/ j \in (Len(tries) + 1)..(Len(tries) + n)
    BY <2>1
  <2>3. \A j \in DOMAIN tries : j \in DOMAIN more
    BY <2>1
  <2> QED
    BY <1>3, <1>4, <2>1, <2>2, <2>3
<1> QED
  BY <1>2, <1>3, <1>4, <1>5 DEF Live

-----------------------------------------------------------------------------
(* The invariant: the locals of each request, and the circuits.            *)
Locals == [place : {"idle", "calling", "answered", "failed"}, chain : Seq(Route), tries : Seq(Verdict)]

PassedOver == {"skipped", "transient"}

(* TriesAreJustified of one request.                                       *)
Justified(l) ==
    /\ Live(l.tries) <= MaxLive
    /\ l.place = "calling" => Live(l.tries) < MaxLive
    /\ \A j \in 1..Len(l.tries) : j < Len(l.tries) \/ l.place = "calling" => l.tries[j] \in PassedOver
    /\ l.place = "answered" => Last(l.tries) = "success"
    /\ l.place = "failed" =>
          \/ Last(l.tries) \in {"fatal", "success"}
          \/ Live(l.tries) = MaxLive
          \/ Len(l.tries) = Len(l.chain)

RequestOK(l) ==
    /\ l \in Locals
    /\ IsInjective(l.chain)
    /\ Len(l.tries) <= Len(l.chain) - (IF l.place = "calling" THEN 1 ELSE 0)
    /\ Justified(l)

RequestsOK == ask \in [Request -> Locals] /\ \A r \in Request : RequestOK(ask[r])

(* A circuit that has failed often enough is open until it has cooled.     *)
CircuitOK(c) == c \in Circuit /\ (c.failures = Threshold /\ ~c.cooled => c.state = "open")

CircuitsOK(circuits) == circuits \in [Route -> Circuit] /\ \A k \in Route : CircuitOK(circuits[k])

Inv == RequestsOK /\ CircuitsOK(breaker)

LEMMA IdleIsOK == ASSUME Configured PROVE RequestOK(Idle) /\ Idle \in Locals
BY LiveOfNone DEF Configured, RequestOK, Idle, Locals, Justified, IsInjective

LEMMA ClosedIsOK == ASSUME Configured PROVE CircuitOK(Closed)
BY DEF Configured, CircuitOK, Closed, Circuit

LEMMA FailureIsOK == ASSUME Configured, NEW c, CircuitOK(c) PROVE CircuitOK(RecordFailure(c))
BY DEF Configured, CircuitOK, RecordFailure, Circuit

(* Who is admitted finds a circuit that may be called.                     *)
LEMMA AdmissionIsOK ==
    ASSUME Configured, NEW c, CircuitOK(c), Allowed(c)
    PROVE  CircuitOK(Admit(c)) /\ (Admit(c).failures < Threshold \/ Admit(c).cooled)
BY DEF Configured, CircuitOK, Allowed, Admit, Circuit

LEMMA InvInit == Configured /\ Init => Inv
BY IdleIsOK, ClosedIsOK DEF Init, Inv, RequestsOK, CircuitsOK, CircuitOK

-----------------------------------------------------------------------------
(* The route that a request with these locals waits for was let through.   *)
SparedBy(l, circuits) ==
    l.place = "calling" => LET c == circuits[l.chain[Len(l.tries) + 1]] IN c.failures < Threshold \/ c.cooled

(* What the loop makes of the locals of a request and of the circuits.     *)
Goes(r, l) ==
    /\ ask' = [ask EXCEPT ![r] = l]
    /\ RequestOK(l) /\ CircuitsOK(breaker') /\ SparedBy(l, breaker')

LEMMA AdvanceStep ==
    ASSUME Configured, NEW r \in Request, NEW chain \in Seq(Route), IsInjective(chain),
           NEW tries \in Seq(Verdict), Len(tries) <= Len(chain), Live(tries) <= MaxLive,
           \A j \in 1..Len(tries) : tries[j] \in PassedOver,
           NEW circuits, CircuitsOK(circuits), Advance(r, chain, tries, circuits)
    PROVE  \E l \in Locals : Goes(r, l)
<1>1. PICK up \in SUBSET Route :
        LET rest  == (Len(tries) + 1)..Len(chain)
            ready == {j \in rest : chain[j] \in up /\ Allowed(circuits[chain[j]])}
        IN  IF Live(tries) >= MaxLive \/ ready = {}
            THEN /\ ask' = [ask EXCEPT ![r] =
                        [place |-> "failed", chain |-> chain,
                         tries |-> IF Live(tries) >= MaxLive THEN tries
                                   ELSE tries \o Skips(Len(chain) - Len(tries))]]
                 /\ breaker' = circuits
            ELSE \E j \in ready :
                    /\ \A i \in ready : j <= i
                    /\ ask' = [ask EXCEPT ![r] = [place |-> "calling", chain |-> chain,
                                                  tries |-> tries \o Skips(j - 1 - Len(tries))]]
                    /\ breaker' = [circuits EXCEPT ![chain[j]] = Admit(@)]
  BY DEF Advance
<1> DEFINE ready == {j \in (Len(tries) + 1)..Len(chain) : chain[j] \in up /\ Allowed(circuits[chain[j]])}
           more(n) == tries \o Skips(n)
<1>2. /\ MaxLive \in Nat /\ Live(tries) \in Nat
      /\ Len(tries) \in Nat /\ Len(chain) \in Nat
  BY LiveIsNat DEF Configured
<1>3. \A n \in Nat : /\ more(n) \in Seq(Verdict) /\ Len(more(n)) = Len(tries) + n
                     /\ Live(more(n)) = Live(tries)
                     /\ \A j \in 1..Len(more(n)) : more(n)[j] \in PassedOver
  <2> SUFFICES ASSUME NEW n \in Nat
               PROVE  /\ more(n) \in Seq(Verdict) /\ Len(more(n)) = Len(tries) + n
                      /\ Live(more(n)) = Live(tries)
                      /\ \A j \in 1..Len(more(n)) : more(n)[j] \in PassedOver
    OBVIOUS
  <2>1. /\ more(n) \in Seq(Verdict) /\ Len(more(n)) = Len(tries) + n
        /\ \A j \in 1..Len(tries) : more(n)[j] = tries[j]
        /\ \A j \in (Len(tries) + 1)..(Len(tries) + n) : more(n)[j] = "skipped"
        /\ Live(more(n)) = Live(tries)
    BY SkipsAreTries
  <2> HIDE DEF more
  <2>2. ASSUME NEW j \in 1..Len(more(n)) PROVE more(n)[j] \in PassedOver
    <3>1. j \in 1..Len(tries) \/ j \in (Len(tries) + 1)..(Len(tries) + n)
      BY <1>2, <2>1
    <3> QED
      BY <2>1, <3>1 DEF PassedOver
  <2> QED
    BY <2>1, <2>2
<1> HIDE DEF more
<1>4. CASE Live(tries) >= MaxLive \/ ready = {}
  <2> DEFINE t == IF Live(tries) >= MaxLive THEN tries ELSE more(Len(chain) - Len(tries))
             l == [place |-> "failed", chain |-> chain, tries |-> t]
  <2>1. ask' = [ask EXCEPT ![r] = l] /\ breaker' = circuits
    BY <1>1, <1>4 DEF more
  <2>2. Len(chain) - Len(tries) \in Nat
    BY <1>2
  <2>3. /\ t \in Seq(Verdict) /\ Len(t) <= Len(chain) /\ Live(t) <= MaxLive
        /\ \A j \in 1..Len(t) : t[j] \in PassedOver
        /\ Live(t) = MaxLive \/ Len(t) = Len(chain)
    <3>1. CASE Live(tries) >= MaxLive
      <4>1. t = tries
        BY <3>1
      <4> HIDE DEF t
      <4> QED
        BY <1>2, <3>1, <4>1
    <3>2. CASE ~(Live(tries) >= MaxLive)
      <4>1. PICK n \in Nat : n = Len(chain) - Len(tries)
        BY <2>2
      <4>2. t = more(n) /\ Len(tries) + n = Len(chain)
        BY <1>2, <3>2, <4>1
      <4>3. more(n) \in Seq(Verdict) /\ Len(more(n)) = Len(chain) /\ Live(more(n)) = Live(tries)
        BY <1>3, <4>2
      <4>4. \A i \in 1..Len(more(n)) : more(n)[i] \in PassedOver
        BY <1>3
      <4> HIDE DEF t
      <4> QED
        BY <1>2, <4>2, <4>3, <4>4
    <3> QED
      BY <3>1, <3>2
  <2> HIDE DEF t
  <2>4. RequestOK(l) /\ l \in Locals /\ l.place # "calling"
    BY <1>2, <2>3 DEF RequestOK, Locals, Justified
  <2> QED
    BY <2>1, <2>4 DEF Goes, SparedBy
<1>5. CASE ~(Live(tries) >= MaxLive \/ ready = {})
  <2>1. PICK j \in ready : /\ ask' = [ask EXCEPT ![r] = [place |-> "calling", chain |-> chain,
                                                         tries |-> more(j - 1 - Len(tries))]]
                           /\ breaker' = [circuits EXCEPT ![chain[j]] = Admit(@)]
    BY <1>1, <1>5 DEF more
  <2>2. /\ j \in (Len(tries) + 1)..Len(chain) /\ j - 1 - Len(tries) \in Nat
        /\ chain[j] \in Route /\ Allowed(circuits[chain[j]])
    BY <1>2
  <2> DEFINE t == more(j - 1 - Len(tries))
             l == [place |-> "calling", chain |-> chain, tries |-> t]
  <2>3. /\ t \in Seq(Verdict) /\ Len(t) = j - 1 /\ Live(t) < MaxLive
        /\ \A i \in 1..Len(t) : t[i] \in PassedOver
    <3>1. PICK n \in Nat : n = j - 1 - Len(tries)
      BY <2>2
    <3>2. t = more(n) /\ Len(tries) + n = j - 1 /\ Live(tries) < MaxLive
      BY <1>2, <1>5, <2>2, <3>1
    <3> HIDE DEF t
    <3> QED
      BY <1>3, <3>2
  <2> HIDE DEF t
  <2>4. RequestOK(l) /\ l \in Locals
    <3>1. Len(t) <= Len(chain) - 1
      BY <1>2, <2>2, <2>3
    <3>2. l.place = "calling" /\ l.chain = chain /\ l.tries = t /\ l \in Locals
      BY <2>3 DEF Locals
    <3> HIDE DEF l
    <3>3. Live(t) <= MaxLive
      BY <1>2, <2>3, LiveIsNat
    <3>4. Justified(l)
      BY <2>3, <3>2, <3>3 DEF Justified
    <3> QED
      BY <3>1, <3>2, <3>4 DEF RequestOK
  <2>5. /\ CircuitOK(Admit(circuits[chain[j]]))
        /\ Admit(circuits[chain[j]]).failures < Threshold \/ Admit(circuits[chain[j]]).cooled
    BY <2>2, AdmissionIsOK DEF CircuitsOK
  <2>6. CircuitsOK(breaker')
    BY <2>1, <2>2, <2>5 DEF CircuitsOK, CircuitOK
  <2>7. breaker'[l.chain[Len(l.tries) + 1]] = Admit(circuits[chain[j]])
    BY <2>1, <2>2, <2>3 DEF CircuitsOK
  <2>8. ask' = [ask EXCEPT ![r] = l]
    BY <2>1 DEF t
  <2> HIDE DEF l
  <2> QED
    BY <2>4, <2>5, <2>6, <2>7, <2>8 DEF Goes, SparedBy
<1> QED
  BY <1>4, <1>5

(* A request arrives.                                                      *)
LEMMA AskStep ==
    ASSUME Configured, Inv, NEW r \in Request, NEW task \in Task, Ask(r, task)
    PROVE  \E l \in Locals : Goes(r, l)
<1>1. ChainOf(task) \in Seq(Route) /\ IsInjective(ChainOf(task)) /\ MaxLive \in Nat
  BY DEF Configured
<1>2. <<>> \in Seq(Verdict) /\ Len(<<>>) = 0 /\ Live(<<>>) <= MaxLive /\ Len(<<>>) <= Len(ChainOf(task))
  BY <1>1, LiveOfNone
<1>3. Advance(r, ChainOf(task), <<>>, breaker) /\ CircuitsOK(breaker)
  BY DEF Ask, Inv
<1>4. PICK chain \in Seq(Route) : chain = ChainOf(task)
  BY <1>1
<1>5. \A j \in 1..Len(<<>>) : <<>>[j] \in PassedOver
  BY <1>2
<1> QED
  BY <1>1, <1>2, <1>3, <1>4, <1>5, AdvanceStep

(* An adapter answers.                                                     *)
LEMMA AnswerStep ==
    ASSUME Configured, Inv, NEW r \in Request, NEW verdict \in Verdict \ {"skipped"}, Answer(r, verdict)
    PROVE  \E l \in Locals : Goes(r, l)
<1> DEFINE l == ask[r]
           k == Called(r)
           tries == Append(l.tries, verdict)
           told == [breaker EXCEPT ![k] = IF verdict = "success" THEN RecordSuccess ELSE RecordFailure(@)]
<1>1. /\ l \in Locals /\ IsInjective(l.chain) /\ l.place = "calling"
      /\ Len(l.tries) <= Len(l.chain) - 1 /\ Live(l.tries) < MaxLive
      /\ \A j \in 1..Len(l.tries) : l.tries[j] \in PassedOver
  BY DEF Inv, RequestsOK, RequestOK, Justified, Answer
<1>2. l.chain \in Seq(Route) /\ l.tries \in Seq(Verdict) /\ MaxLive \in Nat /\ Live(l.tries) \in Nat
  BY <1>1, LiveIsNat DEF Locals, Configured
<1>3. k \in Route
  BY <1>1, <1>2 DEF Called
<1>4. CircuitsOK(told)
  <2>1. CircuitOK(IF verdict = "success" THEN RecordSuccess ELSE RecordFailure(breaker[k]))
    BY <1>3, ClosedIsOK, FailureIsOK DEF RecordSuccess, Inv, CircuitsOK
  <2> QED
    BY <1>3, <2>1 DEF Inv, CircuitsOK, CircuitOK
<1>5. /\ tries \in Seq(Verdict) /\ Len(tries) = Len(l.tries) + 1 /\ Len(tries) <= Len(l.chain)
      /\ Live(tries) <= MaxLive /\ tries[Len(tries)] = verdict
      /\ \A j \in 1..Len(tries) : j < Len(tries) => tries[j] \in PassedOver
  <2>1. Live(tries) = Live(l.tries) + 1
    BY <1>2, LiveOfOneMore
  <2>2. tries \in Seq(Verdict) /\ Len(tries) = Len(l.tries) + 1 /\ tries[Len(tries)] = verdict
    BY <1>2
  <2>3. \A j \in 1..Len(l.tries) : tries[j] = l.tries[j]
    BY <1>2
  <2> HIDE DEF tries
  <2>4. ASSUME NEW j \in 1..Len(tries), j < Len(tries) PROVE tries[j] \in PassedOver
    <3>1. j \in 1..Len(l.tries)
      BY <1>2, <2>2, <2>4
    <3> QED
      BY <1>1, <2>3, <3>1
  <2>5. Len(tries) <= Len(l.chain) /\ Live(tries) <= MaxLive
    BY <1>1, <1>2, <2>1, <2>2
  <2> QED
    BY <2>2, <2>4, <2>5
<1>6. /\ \/ verdict = "transient" /\ Advance(r, l.chain, tries, told)
         \/ /\ verdict # "transient"
            /\ breaker' = told
            /\ \E end \in {"answered", "failed"} :
                  /\ verdict = "fatal" => end = "failed"
                  /\ ask' = [ask EXCEPT ![r].place = end, ![r].tries = tries]
  BY DEF Answer
<1> HIDE DEF l, k, tries, told
<1>7. CASE verdict = "transient" /\ Advance(r, l.chain, tries, told)
  <2>1. \A j \in 1..Len(tries) : tries[j] \in PassedOver
    <3>1. ASSUME NEW j \in 1..Len(tries) PROVE tries[j] \in PassedOver
      <4>1. j < Len(tries) \/ j = Len(tries)
        BY <1>5
      <4> QED
        BY <1>5, <1>7, <4>1 DEF PassedOver
    <3> QED
      BY <3>1
  <2> QED
    BY <1>1, <1>2, <1>4, <1>5, <1>7, <2>1, AdvanceStep
<1>8. CASE verdict # "transient" /\ breaker' = told
           /\ \E end \in {"answered", "failed"} :
                 /\ verdict = "fatal" => end = "failed"
                 /\ ask' = [ask EXCEPT ![r].place = end, ![r].tries = tries]
  <2>1. PICK end \in {"answered", "failed"} :
           /\ verdict = "fatal" => end = "failed"
           /\ ask' = [ask EXCEPT ![r].place = end, ![r].tries = tries]
    BY <1>8
  <2> DEFINE new == [l EXCEPT !.place = end, !.tries = tries]
  <2>2. ask' = [ask EXCEPT ![r] = new]
    BY <2>1 DEF l, Inv, RequestsOK
  <2>3. new.place = end /\ new.chain = l.chain /\ new.tries = tries /\ new \in Locals
    BY <1>1, <1>5 DEF Locals
  <2> HIDE DEF new
  <2>4. Last(tries) = verdict /\ verdict \in {"fatal", "success"} /\ (end = "answered" => verdict = "success")
    BY <1>5, <1>8, <2>1 DEF Last, Verdict
  <2>5. RequestOK(new)
    <3>1. Justified(new)
      BY <1>5, <2>1, <2>3, <2>4 DEF Justified
    <3>2. Len(tries) <= Len(l.chain) - 0
      BY <1>2, <1>5
    <3> QED
      BY <1>1, <2>1, <2>3, <3>1, <3>2 DEF RequestOK
  <2> QED
    BY <1>4, <1>8, <2>1, <2>2, <2>3, <2>5 DEF Goes, SparedBy
<1> QED
  BY <1>6, <1>7, <1>8

-----------------------------------------------------------------------------
(* The invariant is inductive, and what a step may do to a request.        *)
SparedStep ==
    \A r \in Request :
        ask'[r].place = "calling" /\ ask'[r] # ask[r] =>
            LET c == breaker'[ask'[r].chain[Len(ask'[r].tries) + 1]]
            IN  c.failures < Threshold \/ c.cooled

LEMMA OneGoes ==
    ASSUME Inv, NEW r \in Request, NEW l \in Locals, Goes(r, l)
    PROVE  Inv' /\ SparedStep
<1>1. ask'[r] = l /\ \A q \in Request : q # r => ask'[q] = ask[q]
  BY DEF Goes, Inv, RequestsOK
<1>2. ask' \in [Request -> Locals]
  BY DEF Goes, Inv, RequestsOK
<1>3. RequestsOK'
  BY <1>1, <1>2 DEF Goes, Inv, RequestsOK
<1>4. CircuitsOK(breaker)'
  BY DEF Goes
<1>5. SparedStep
  BY <1>1 DEF Goes, SparedBy, SparedStep
<1> QED
  BY <1>3, <1>4, <1>5 DEF Inv

LEMMA InvStep == Configured /\ Inv /\ [Next]_vars => Inv' /\ SparedStep
<1> SUFFICES ASSUME Configured, Inv, [Next]_vars PROVE Inv' /\ SparedStep
  OBVIOUS
<1>1. CASE UNCHANGED vars
  BY <1>1 DEF vars, Inv, RequestsOK, CircuitsOK, SparedStep
<1>2. ASSUME NEW r \in Request, NEW task \in Task, Ask(r, task) PROVE Inv' /\ SparedStep
  BY <1>2, AskStep, OneGoes
<1>3. ASSUME NEW r \in Request, NEW v \in Verdict \ {"skipped"}, Answer(r, v) PROVE Inv' /\ SparedStep
  BY <1>3, AnswerStep, OneGoes
<1>4. ASSUME NEW r \in Request, Return(r) PROVE Inv' /\ SparedStep
  <2>1. Goes(r, Idle) /\ Idle \in Locals
    BY <1>4, IdleIsOK DEF Return, Goes, SparedBy, Inv, Idle
  <2> QED
    BY <2>1, OneGoes
<1>5. ASSUME NEW k \in Route, Cool(k) PROVE Inv' /\ SparedStep
  BY <1>5 DEF Cool, Inv, RequestsOK, CircuitsOK, CircuitOK, Circuit, SparedStep
<1>6. CASE Restart
  BY <1>6, IdleIsOK, ClosedIsOK DEF Restart, Inv, RequestsOK, CircuitsOK, CircuitOK, SparedStep, Idle
<1> QED
  BY <1>1, <1>2, <1>3, <1>4, <1>5, <1>6 DEF Next

LEMMA InvImplies == Inv => TypeOK /\ TriesAreJustified
<1> SUFFICES ASSUME Inv PROVE TypeOK /\ TriesAreJustified
  OBVIOUS
<1>1. TypeOK
  BY DEF Inv, RequestsOK, RequestOK, Locals, CircuitsOK, TypeOK
<1>2. TriesAreJustified
  BY DEF Inv, RequestsOK, RequestOK, Justified, PassedOver, TriesAreJustified
<1> QED
  BY <1>1, <1>2

(* Every variable of ProviderGateway keeps its type.                       *)
THEOREM GatewayTyping == ASSUME Configured PROVE Spec => []TypeOK
BY InvInit, InvStep, InvImplies, PTL DEF Spec

(* However the answers of concurrent requests and restarts interleave, a   *)
(* request keeps the limit of live calls, leaves a route only after a skip *)
(* or a transient error, and fails only for one of the stated reasons.     *)
THEOREM FallbackIsJustified == ASSUME Configured PROVE Spec => []TriesAreJustified
BY InvInit, InvStep, InvImplies, PTL DEF Spec

(* No request is sent to a route that failed Threshold times in a row      *)
(* before its reset timeout has passed, whoever reported those failures.   *)
THEOREM OpenCircuitsAreSpared == ASSUME Configured PROVE Spec => FailingRoutesAreSpared
<1>1. Inv /\ [Next]_vars => [SparedStep]_vars
  BY InvStep
<1> QED
  BY <1>1, InvInit, InvStep, PTL DEF Spec, FailingRoutesAreSpared, SparedStep
=============================================================================
