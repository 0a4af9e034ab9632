------------------------- MODULE ProviderGateway -------------------------
(***************************************************************************)
(* The provider gateway: the chain of routes for a task, the fallback loop *)
(* of generate_text and the circuit breakers it shares with every other    *)
(* request (ProviderGatewayService, CircuitBreaker, select_provider_chain). *)
(*                                                                         *)
(* /ask waits for its adapter on the event loop; meanwhile a tick may      *)
(* dispatch work whose request runs on a thread of its own, for which the  *)
(* loop waits.  So what happens between two awaits, that is between the    *)
(* answer of one adapter and the call of the next, is one action; which    *)
(* request is answered first is left open.  Requests rejected before a     *)
(* route is chosen (sensitive or high-risk prompts) leave no trace here;   *)
(* the audit write is swallowed when it fails and left out.                *)
(***************************************************************************)
EXTENDS Naturals, FiniteSets, SequencesExt

CONSTANTS
    Route,         \* provider-qualified model aliases
    Request,       \* calls of generate_text
    Combo,         \* combo_priorities: a task, or "generic", -> its routes by priority
    Specialist,    \* task -> the direct route of its configured specialist
    Eligible,      \* task -> routes allowed, enabled and able to serve it
    Task,
    MaxLive,       \* MAX_TOTAL_ATTEMPTS
    Threshold      \* CIRCUIT_BREAKER_FAILURE_THRESHOLD

VARIABLES
    breaker,    \* Route -> its circuit
    ask         \* Request -> the locals of generate_text

vars == <<breaker, ask>>

-----------------------------------------------------------------------------
(* select_provider_chain: the specialist of the task, then its combo, or   *)
(* the generic one, without what is not eligible or already chosen.        *)
ChainOf(task) ==
    LET first == IF task \in DOMAIN Specialist THEN <<Specialist[task]>> ELSE <<>>
        rest  == Combo[IF task \in DOMAIN Combo THEN task ELSE "generic"]
        serves(k) == k \in Eligible[task]
    IN  SelectSeq(first \o SelectSeq(rest, LAMBDA k : k \notin ToSet(first)), serves)

(* What the configuration must be for that: no combo names a route twice,  *)
(* and every limit leaves room for a call and for a failure.               *)
Configured ==
    /\ \A task \in Task : ChainOf(task) \in Seq(Route) /\ IsInjective(ChainOf(task))
    /\ MaxLive \in Nat /\ Threshold \in Nat \ {0}

-----------------------------------------------------------------------------
(* Failures are counted up to the threshold, beyond which the count makes  *)
(* no difference; cooled: the reset timeout has passed since the last one, *)
(* which matters once the threshold is reached.                            *)
Circuit == [state : {"closed", "open", "half_open"}, failures : 0..Threshold, cooled : BOOLEAN]

Closed == [state |-> "closed", failures |-> 0, cooled |-> FALSE]

(* check_request_allowed, and the state it leaves.                         *)
Allowed(c) == c.state # "open" \/ c.cooled
Admit(c)   == IF c.state = "open" THEN [c EXCEPT !.state = "half_open"] ELSE c

RecordSuccess == Closed

(* A breaker that opens only from closed.                                  *)
RecordFailureOnce(c) ==
    LET n == IF c.failures < Threshold THEN c.failures + 1 ELSE Threshold
    IN  [state |-> IF n = Threshold /\ c.state = "closed" THEN "open" ELSE c.state,
         failures |-> n, cooled |-> FALSE]

RecordFailure(c) ==
    LET n == IF c.failures < Threshold THEN c.failures + 1 ELSE Threshold
    IN  [state |-> IF n = Threshold THEN "open" ELSE c.state, failures |-> n, cooled |-> FALSE]

-----------------------------------------------------------------------------
(* transient: RATE_LIMITED, TIMEOUT and PROVIDER_UNAVAILABLE, for which    *)
(* the next route is tried; fatal: every other error of an adapter.        *)
Verdict == {"skipped", "transient", "fatal", "success"}

(* tries: the verdict on each route of the chain so far.                   *)
Idle == [place |-> "idle", chain |-> <<>>, tries |-> <<>>]

Live(tries) == Cardinality({j \in DOMAIN tries : tries[j] # "skipped"})

Skips(n) == [j \in 1..n |-> "skipped"]

(* The loop that forgets to count its live calls.                          *)
EagerAdvance(r, chain, tries, circuits) ==
    \E up \in SUBSET Route :
        LET rest  == (Len(tries) + 1)..Len(chain)
            ready == {j \in rest : chain[j] \in up /\ Allowed(circuits[chain[j]])}
        IN  IF ready = {}
            THEN /\ ask' = [ask EXCEPT ![r] = [place |-> "failed", chain |-> chain,
                                               tries |-> tries \o Skips(Len(chain) - Len(tries))]]
                 /\ breaker' = circuits
            ELSE \E j \in ready :
                    /\ \A i \in ready : j <= i
                    /\ ask' = [ask EXCEPT ![r] = [place |-> "calling", chain |-> chain,
                                                  tries |-> tries \o Skips(j - 1 - Len(tries))]]
                    /\ breaker' = [circuits EXCEPT ![chain[j]] = Admit(@)]

(* The loop of generate_text up to the next live call or its end: routes   *)
(* whose adapter is unavailable or whose circuit is open are skipped.      *)
Advance(r, chain, tries, circuits) ==
    \E up \in SUBSET Route :
        LET rest  == (Len(tries) + 1)..Len(chain)
            ready == {j \in rest : chain[j] \in up /\ Allowed(circuits[chain[j]])}
        IN  IF Live(tries) >= MaxLive \/ ready = {}
            THEN /\ ask' = [ask EXCEPT ![r] =
                        [place |-> "failed", chain |-> chain,
                         tries |-> IF Live(tries) >= MaxLive THEN tries
                                   ELSE tries \o Skips(Len(chain) - Len(tries))]]
                 /\ breaker' = circuits
            ELSE \E j \in ready :
                    /\ \A i \in ready : j <= i
                    /\ ask' = [ask EXCEPT ![r] = [place |-> "calling", chain |-> chain,
                                                  tries |-> tries \o Skips(j - 1 - Len(tries))]]
                    /\ breaker' = [circuits EXCEPT ![chain[j]] = Admit(@)]

Init ==
    /\ breaker = [k \in Route |-> Closed]
    /\ ask = [r \in Request |-> Idle]

(* A request arrives; a task without an eligible route is refused.         *)
Ask(r, task) ==
    /\ ask[r] = Idle
    /\ ChainOf(task) # <<>>
    /\ Advance(r, ChainOf(task), <<>>, breaker)

(* The route that a request waits for.                                     *)
Called(r) == ask[r].chain[Len(ask[r].tries) + 1]

(* The adapter answers: its circuit is told, and the loop goes on or ends. *)
(* A response that is too large ends the request too, after a success.     *)
Answer(r, verdict) ==
    LET k     == Called(r)
        tries == Append(ask[r].tries, verdict)
        told  == [breaker EXCEPT ![k] = IF verdict = "success" THEN RecordSuccess ELSE RecordFailure(@)]
    IN  /\ ask[r].place = "calling"
        /\ \/ verdict = "transient" /\ Advance(r, ask[r].chain, tries, told)
           \/ /\ verdict # "transient"
              /\ breaker' = told
              /\ \E end \in {"answered", "failed"} :
                    /\ verdict = "fatal" => end = "failed"
                    /\ ask' = [ask EXCEPT ![r].place = end, ![r].tries = tries]

(* CIRCUIT_BREAKER_RESET_TIMEOUT passes since the last failure of a route. *)
Cool(k) ==
    /\ breaker[k].failures = Threshold /\ ~breaker[k].cooled
    /\ breaker' = [breaker EXCEPT ![k].cooled = TRUE]
    /\ UNCHANGED ask

(* The caller has its text or error, and asks again some time.             *)
Return(r) ==
    /\ ask[r].place \in {"answered", "failed"}
    /\ ask' = [ask EXCEPT ![r] = Idle]
    /\ UNCHANGED breaker

(* The process restarts: circuits are in memory only.                      *)
Restart ==
    /\ breaker' = [k \in Route |-> Closed]
    /\ ask' = [r \in Request |-> Idle]

Next ==
    \/ \E r \in Request :
          \/ \E t \in Task : Ask(r, t)
          \/ \E v \in Verdict \ {"skipped"} : Answer(r, v)
          \/ Return(r)
    \/ \E k \in Route : Cool(k)
    \/ Restart

Spec == Init /\ [][Next]_vars

-----------------------------------------------------------------------------
(* Every variable has its type; a chain holds no route twice.              *)
TypeOK ==
    /\ breaker \in [Route -> Circuit]
    /\ \A r \in Request :
          /\ ask[r].place \in {"idle", "calling", "answered", "failed"}
          /\ ask[r].chain \in Seq(Route) /\ IsInjective(ask[r].chain)
          /\ ask[r].tries \in Seq(Verdict)
          /\ Len(ask[r].tries) <= Len(ask[r].chain) - (IF ask[r].place = "calling" THEN 1 ELSE 0)

(* A request makes at most MaxLive live calls; a route is left for the     *)
(* next one only after a transient error or a skip; and a request without  *)
(* an answer had a fatal error, an oversized response, all its calls, or   *)
(* every route of its chain (SPRINT_5G: a skip consumes no slot).          *)
TriesAreJustified ==
    \A r \in Request :
        LET t == ask[r].tries
        IN  /\ Live(t) <= MaxLive
            /\ ask[r].place = "calling" => Live(t) < MaxLive
            /\ \A j \in 1..Len(t) : j < Len(t) \/ ask[r].place = "calling" => t[j] \in {"skipped", "transient"}
            /\ ask[r].place = "answered" => Last(t) = "success"
            /\ ask[r].place = "failed" =>
                  \/ Last(t) \in {"fatal", "success"}
                  \/ Live(t) = MaxLive
                  \/ Len(t) = Len(ask[r].chain)

(* A route that failed Threshold times without a success between is called *)
(* again only when the reset timeout has passed since its last failure,    *)
(* whatever answers of older calls arrived meanwhile.                      *)
FailingRoutesAreSpared ==
    [][\A r \in Request :
          ask'[r].place = "calling" /\ ask'[r] # ask[r] =>
              LET c == breaker'[ask'[r].chain[Len(ask'[r].tries) + 1]]
              IN  c.failures < Threshold \/ c.cooled]_vars
=============================================================================
