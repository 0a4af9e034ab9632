--------------------------- MODULE RecordsProofs ---------------------------
(***************************************************************************)
(* What is proved about the components that keep records, for every set of *)
(* processes, rows, accounts, menus, pages and counts: rows are promoted   *)
(* once, chains are sound, statuses move legally, paragraph maps are       *)
(* whole, the token is of the account the owner connected, who polls finds *)
(* every table, a choice stays what the owner was shown, progress and      *)
(* reads are honest, and what one more word may change of a plan.          *)
(***************************************************************************)
EXTENDS MCRecords, FiniteSetTheorems, WellFoundedInduction, TLAPS

(* Each behaviour is one of every component, or leaves it alone.           *)
LEMMA Followed ==
    ASSUME [Next]_vars
    PROVE  /\ P!Next \/ UNCHANGED promotionVars
           /\ T!WorkNext \/ UNCHANGED <<works, desk>>
           /\ T!RecordNext \/ UNCHANGED <<decisions, links>>
           /\ A!Next \/ UNCHANGED tokenVars
           /\ D!StateNext \/ D!MapNext \/ D!TaskNext \/ UNCHANGED dissertationVars
           /\ S!Next \/ UNCHANGED startupVars
           /\ C!Next \/ UNCHANGED questions
           /\ M!Next \/ UNCHANGED memoryVars
           /\ R!ReadNext \/ R!CopyNext \/ UNCHANGED readVars
           /\ W!Next \/ UNCHANGED plan
<1>1. T!WorkNext => UNCHANGED <<decisions, links>>
  BY DEF T!WorkNext, T!CaptureWork, T!ReadForTransition, T!Transition
<1>2. T!RecordNext => UNCHANGED <<works, desk>>
  BY DEF T!RecordNext, T!Register, T!RegisterInstead, T!RequestApproval, T!ResolveApproval
<1> USE DEF promotionVars, towerVars, tokenVars, dissertationVars, memoryVars, readVars, startupVars
<1>3. CASE Promote \/ Converse \/ Connect
  BY <1>3 DEF Promote, Converse, Connect
<1>8. CASE Work
  BY <1>1, <1>8 DEF Work
<1>9. CASE Decide
  BY <1>2, <1>9 DEF Decide
<1>4. CASE Review \/ MapOut \/ Research
  <2>1. D!StateNext \/ D!MapNext \/ D!TaskNext
    BY <1>4 DEF Review, MapOut, Research
  <2>2. UNCHANGED promotionVars /\ UNCHANGED towerVars /\ UNCHANGED tokenVars
    BY <1>4 DEF Review, MapOut, Research
  <2>3. UNCHANGED questions /\ UNCHANGED memoryVars /\ UNCHANGED readVars /\ UNCHANGED plan /\ UNCHANGED startupVars
    BY <1>4 DEF Review, MapOut, Research
  <2> QED
    BY <2>1, <2>2, <2>3
<1>7. CASE Remember
  BY <1>7 DEF Remember
<1>5. CASE Search \/ Download
  <2>1. R!ReadNext \/ R!CopyNext
    BY <1>5 DEF Search, Download
  <2>2. /\ UNCHANGED promotionVars /\ UNCHANGED towerVars /\ UNCHANGED tokenVars
        /\ UNCHANGED dissertationVars
    BY <1>5 DEF Search, Download
  <2>3. UNCHANGED questions /\ UNCHANGED memoryVars /\ UNCHANGED plan /\ UNCHANGED startupVars
    BY <1>5 DEF Search, Download
  <2> QED
    BY <2>1, <2>2, <2>3
<1>10. CASE Route \/ Start
  BY <1>10 DEF Route, Start
<1>6. CASE UNCHANGED vars
  BY <1>6 DEF vars
<1> QED
  BY <1>3, <1>4, <1>5, <1>6, <1>7, <1>8, <1>9, <1>10 DEF Next

-----------------------------------------------------------------------------
(* The token. The property is inductive once every variable has its type.  *)
TokenTypes ==
    /\ token \in A!Token
    /\ cache \in [Process -> Account \cup {None}]
    /\ session \in [Process -> A!Sessions]
    /\ \A p \in Process : session[p].place # "idle" => session[p].account \in Account

TokenInv == TokenTypes /\ TokenIsTheOwners

LEMMA TokenInvInit == Init => TokenInv
<1> SUFFICES ASSUME Init PROVE TokenInv
  OBVIOUS
<1>1. /\ token = A!NoToken /\ wish = None
      /\ cache = [p \in Process |-> None] /\ session = [p \in Process |-> A!Idle]
  BY DEF Init, A!Init
<1>2. A!NoToken \in A!Token /\ A!NoToken.account = None /\ A!Idle \in A!Sessions /\ A!Idle.place = "idle"
  BY DEF A!Token, A!NoToken, A!Idle, A!Sessions
<1> QED
  BY <1>1, <1>2 DEF TokenInv, TokenTypes, TokenIsTheOwners, A!TokenIsTheOwners

LEMMA TokenStep == TokenInv /\ A!Next => TokenInv'
<1> SUFFICES ASSUME TokenInv, A!Next PROVE TokenInv'
  OBVIOUS
<1> USE DEF TokenInv, TokenTypes, TokenIsTheOwners, A!TokenIsTheOwners
<1>0. /\ A!Idle \in A!Sessions /\ A!Idle.place = "idle" /\ A!NoToken \in A!Token /\ A!NoToken.account = None
      /\ \A c \in Account, s \in {"valid", "expired"} : [account |-> c, state |-> s] \in A!Token
      /\ token.account \in Account \cup {None}
      /\ token # A!NoToken => token.account \in Account
  BY DEF A!Idle, A!Sessions, A!Token, A!NoToken
<1>1. CASE A!Expire
  <2>1. token' = [account |-> token.account, state |-> "expired"] /\ token.account \in Account
    BY <1>0, <1>1 DEF A!Expire, A!Token, A!NoToken
  <2> QED
    BY <1>0, <1>1, <2>1 DEF A!Expire
<1>2. ASSUME NEW a \in Process, NEW names \in BOOLEAN, A!Load(a, names)
      PROVE  TokenInv'
  <2>1. PICK s \in A!Sessions : /\ session' = [session EXCEPT ![a] = s]
                                /\ s.account = token.account /\ s.account \in Account
    <3> DEFINE at(place) == [place |-> place, account |-> token.account, names |-> names]
    <3>1. at("refreshing") \in A!Sessions /\ at("asking") \in A!Sessions
      BY <1>0, <1>2 DEF A!Load, A!Sessions
    <3>2. /\ at("refreshing").account = token.account /\ at("asking").account = token.account
          /\ token.account \in Account
      BY <1>0, <1>2 DEF A!Load
    <3>3. A!Goto(a, at("refreshing")) \/ A!Goto(a, at("asking"))
      BY <1>2 DEF A!Load
    <3> HIDE DEF at
    <3> QED
      BY <3>1, <3>2, <3>3 DEF A!Goto
  <2> QED
    BY <1>2, <2>1 DEF A!Load
<1>3. ASSUME NEW a \in Process, A!WriteRefreshed(a)
      PROVE  TokenInv'
  <2>1. /\ session[a].account \in Account /\ session[a] # A!Idle
        /\ token' = [account |-> session[a].account, state |-> "valid"] /\ token' \in A!Token
        /\ spoiled' = (spoiled \/ a \in stale) /\ UNCHANGED wish
    BY <1>0, <1>3 DEF A!WriteRefreshed
  <2>2. CASE A!Return(a, cache[a])
    BY <1>0, <2>1, <2>2 DEF A!Return, A!Goto
  <2>3. CASE A!Goto(a, [session[a] EXCEPT !.place = "asking"]) /\ UNCHANGED <<cache, stale>>
    <3> DEFINE s == [session[a] EXCEPT !.place = "asking"]
    <3>1. s \in A!Sessions /\ s.account = session[a].account
      BY DEF A!Sessions
    <3>2. session' = [session EXCEPT ![a] = s]
      BY <2>3 DEF A!Goto
    <3> HIDE DEF s
    <3> QED
      BY <2>1, <2>3, <3>1, <3>2
  <2> QED
    BY <1>3, <2>2, <2>3 DEF A!WriteRefreshed
<1>4. ASSUME NEW a \in Process, A!Remember(a)
      PROVE  TokenInv'
  BY <1>0, <1>4 DEF A!Remember, A!Return, A!Goto, A!Sessions, A!Idle
<1>5. ASSUME NEW a \in Process, A!Refused(a) \/ A!Restart(a)
      PROVE  TokenInv'
  BY <1>0, <1>5 DEF A!Refused, A!Restart, A!Return, A!Goto
<1>6. ASSUME NEW a \in Process, A!LocalDisconnect(a)
      PROVE  TokenInv'
  BY <1>0, <1>6 DEF A!LocalDisconnect, A!Wished
<1>7. ASSUME NEW a \in Process, NEW c \in Account, A!Reconnect(a, c)
      PROVE  TokenInv'
  BY <1>0, <1>7 DEF A!Reconnect, A!Wished
<1> QED
  BY <1>1, <1>2, <1>3, <1>4, <1>5, <1>6, <1>7 DEF A!Next

(* The token is of the account the owner last connected, whatever          *)
(* refreshes, disconnections, connections and restarts interleave, up to a *)
(* refresh that began before and wrote after.                              *)
THEOREM TokenFollowsTheOwner == Spec => []TokenIsTheOwners
<1>1. TokenInv /\ [Next]_vars => TokenInv'
  <2>1. TokenInv /\ UNCHANGED tokenVars => TokenInv'
    BY DEF TokenInv, TokenTypes, TokenIsTheOwners, A!TokenIsTheOwners, tokenVars
  <2> QED
    BY <2>1, TokenStep, Followed
<1>2. TokenInv => TokenIsTheOwners
  BY DEF TokenInv
<1> QED
  BY <1>1, <1>2, TokenInvInit, PTL DEF Spec

-----------------------------------------------------------------------------
(* Work items. Of any set of items one depends on none of the others: an   *)
(* item depends on what was there before it.                               *)
WorkTypes ==
    /\ works \in [Item -> [status : T!WorkStatus, deps : SUBSET Item]]
    /\ desk \in [Process -> [item : Item \cup {None}, seen : T!WorkStatus]]
    /\ \A p \in Process : desk[p] # T!Idle => desk[p].item \in Item

Earlier ==
    /\ \A i \in Item : works[i].deps \subseteq T!Captured
    /\ \A some \in SUBSET Item : some # {} => \E i \in some : works[i].deps \cap some = {}

WorkInv == WorkTypes /\ Earlier

LEMMA WorkInvInit == Init => WorkInv
<1> SUFFICES ASSUME Init PROVE WorkInv
  OBVIOUS
<1>1. /\ works = [i \in Item |-> [status |-> "absent", deps |-> {}]]
      /\ desk = [p \in Process |-> T!Idle]
  BY DEF Init, T!Init
<1>2. T!Idle \in [item : Item \cup {None}, seen : T!WorkStatus]
  BY DEF T!Idle, T!WorkStatus
<1>3. [status |-> "absent", deps |-> {}] \in [status : T!WorkStatus, deps : SUBSET Item]
  BY DEF T!WorkStatus
<1>4. WorkTypes
  BY <1>1, <1>2, <1>3 DEF WorkTypes
<1>5. Earlier
  BY <1>1 DEF Earlier
<1> QED
  BY <1>4, <1>5 DEF WorkInv

LEMMA LegalStatuses ==
    \A st \in T!WorkStatus : T!Transitions(st) \subseteq T!WorkStatus \ {"absent"}
BY DEF T!WorkStatus, T!Transitions, T!Open

LEMMA WorkStep == WorkInv /\ T!WorkNext => WorkInv'
<1> SUFFICES ASSUME WorkInv, T!WorkNext PROVE WorkInv'
  OBVIOUS
<1> USE DEF WorkInv, WorkTypes
<1>1. ASSUME NEW i \in Item, NEW deps \in SUBSET Item, T!CaptureWork(i, deps)
      PROVE  WorkInv'
  <2> DEFINE r == [status |-> "inbox", deps |-> deps]
  <2>1. r \in [status : T!WorkStatus, deps : SUBSET Item] /\ r.status = "inbox" /\ r.deps = deps
    BY DEF T!WorkStatus, T!Open
  <2>2. works' = [works EXCEPT ![i] = r] /\ UNCHANGED desk
    BY <1>1 DEF T!CaptureWork
  <2> HIDE DEF r
  <2>3. WorkTypes'
    BY <2>1, <2>2
  <2>4. deps \subseteq T!Captured /\ i \notin T!Captured
    BY <1>1 DEF T!CaptureWork, T!Captured
  <2>5. works'[i].deps = deps /\ \A j \in Item \ {i} : works'[j] = works[j]
    BY <2>1, <2>2
  <2>6. T!Captured' = T!Captured \cup {i}
    BY <2>1, <2>2 DEF T!Captured
  <2>7. \A j \in Item : works'[j].deps \subseteq T!Captured'
    BY <2>4, <2>5, <2>6 DEF Earlier
  <2>8. ASSUME NEW X \in SUBSET Item, X # {}
        PROVE  \E j \in X : works'[j].deps \cap X = {}
    <3>1. CASE X \subseteq {i}
      BY <2>4, <2>5, <2>8, <3>1
    <3>2. CASE ~(X \subseteq {i})
      <4>1. PICK j \in X \ {i} : works[j].deps \cap (X \ {i}) = {}
        <5>1. X \ {i} \in SUBSET Item /\ X \ {i} # {}
          BY <3>2
        <5> QED
          BY <5>1 DEF Earlier
      <4>2. i \notin works[j].deps
        BY <2>4 DEF Earlier
      <4> QED
        BY <2>5, <4>1, <4>2
    <3> QED
      BY <3>1, <3>2
  <2> QED
    BY <2>3, <2>7, <2>8 DEF Earlier
<1>2. ASSUME NEW p \in Process, NEW i \in Item, T!ReadForTransition(p, i)
      PROVE  WorkInv'
  <2> DEFINE d == [item |-> i, seen |-> works[i].status]
  <2>1. d \in [item : Item \cup {None}, seen : T!WorkStatus] /\ d.item \in Item
    OBVIOUS
  <2>2. desk' = [desk EXCEPT ![p] = d] /\ UNCHANGED works
    BY <1>2 DEF T!ReadForTransition
  <2> HIDE DEF d
  <2> QED
    BY <2>1, <2>2 DEF Earlier, T!Captured
<1>3. ASSUME NEW p \in Process, NEW to, T!Transition(p, to)
      PROVE  WorkInv'
  <2>1. PICK i \in Item : i = desk[p].item
    BY <1>3 DEF T!Transition
  <2>2. T!Idle \in [item : Item \cup {None}, seen : T!WorkStatus]
    BY DEF T!Idle, T!WorkStatus
  <2>3. to \in T!WorkStatus \ {"absent"}
    BY <1>3, LegalStatuses DEF T!Transition
  <2>4. desk' = [desk EXCEPT ![p] = T!Idle]
    BY <1>3 DEF T!Transition
  <2>5. CASE UNCHANGED works
    BY <2>2, <2>4, <2>5 DEF Earlier, T!Captured
  <2>6. CASE works[i].status = desk[p].seen /\ works' = [works EXCEPT ![i].status = to]
    <3> DEFINE w == works[i]
               r == [w EXCEPT !.status = to]
    <3>0. works' = [works EXCEPT ![i] = r] /\ w \in [status : T!WorkStatus, deps : SUBSET Item]
      BY <2>6
    <3>1. r \in [status : T!WorkStatus, deps : SUBSET Item] /\ r.deps = w.deps /\ r.status # "absent"
      <4> HIDE DEF w
      <4> QED
        BY <2>3, <3>0
    <3> HIDE DEF r
    <3>2. WorkTypes'
      BY <2>2, <2>4, <3>0, <3>1
    <3>3. \A j \in Item : works'[j].deps = works[j].deps
      BY <3>0, <3>1
    <3>4. T!Captured \subseteq T!Captured'
      BY <3>0, <3>1 DEF T!Captured
    <3> QED
      BY <3>2, <3>3, <3>4 DEF Earlier
  <2> QED
    BY <1>3, <2>1, <2>5, <2>6 DEF T!Transition
<1> QED
  BY <1>1, <1>2, <1>3 DEF T!WorkNext

-----------------------------------------------------------------------------
(* Decisions that supersede one another.                                   *)
DecisionRow == [status : {"absent", "active", "superseded"},
                supersedes : Decision \cup {None}, by : Decision \cup {None}]

ChainInv ==
    /\ decisions \in [Decision -> DecisionRow]
    /\ \A d \in Decision :
          /\ decisions[d].status = "absent" => decisions[d].supersedes = None
          /\ (decisions[d].status = "superseded") <=> (decisions[d].by # None)
    /\ \A d, e \in Decision : (decisions[d].by = e) <=> (decisions[e].supersedes = d)

LEMMA ChainInvInit == Init => ChainInv
<1> SUFFICES ASSUME Init PROVE ChainInv
  OBVIOUS
<1> DEFINE r == [status |-> "absent", supersedes |-> None, by |-> None]
<1>1. decisions = [d \in Decision |-> r]
  BY DEF Init, T!Init
<1>2. r \in DecisionRow /\ r.status = "absent" /\ r.supersedes = None /\ r.by = None
  BY DEF DecisionRow
<1> HIDE DEF r
<1> QED
  BY <1>1, <1>2, RecordsAssumption DEF ChainInv

LEMMA ChainStep ==
    ASSUME ChainInv, T!RecordNext
    PROVE  /\ ChainInv'
           /\ \A d \in Decision : decisions[d].status = "superseded" => decisions'[d] = decisions[d]
<1> USE DEF ChainInv
<1>1. ASSUME NEW d \in Decision, T!Register(d)
      PROVE  ChainInv' /\ \A c \in Decision : decisions[c].status = "superseded" => decisions'[c] = decisions[c]
  <2> DEFINE w == decisions[d]
             r == [w EXCEPT !.status = "active"]
  <2>1. decisions' = [decisions EXCEPT ![d] = r] /\ w \in DecisionRow /\ w.status = "absent"
    BY <1>1 DEF T!Register
  <2>2. r \in DecisionRow /\ r.status = "active" /\ r.supersedes = w.supersedes /\ r.by = w.by
    <3> HIDE DEF w
    <3> QED
      BY <2>1 DEF DecisionRow
  <2> HIDE DEF r
  <2> QED
    BY <2>1, <2>2
<1>2. ASSUME NEW d \in Decision, NEW e \in Decision, T!RegisterInstead(d, e)
      PROVE  ChainInv' /\ \A c \in Decision : decisions[c].status = "superseded" => decisions'[c] = decisions[c]
  <2> DEFINE w == decisions[e]
             r == [status |-> "active", supersedes |-> e, by |-> None]
             q == [w EXCEPT !.status = "superseded", !.by = d]
  <2>0. w \in DecisionRow /\ w.by = None /\ d # e /\ decisions[d].status = "absent"
    BY <1>2 DEF T!RegisterInstead, T!Made
  <2>1. decisions' = [[decisions EXCEPT ![d] = r] EXCEPT ![e] = q]
    BY <1>2, <2>0 DEF T!RegisterInstead, T!Supersede
  <2>2. /\ r \in DecisionRow /\ r.status = "active" /\ r.supersedes = e /\ r.by = None
        /\ q \in DecisionRow /\ q.status = "superseded" /\ q.supersedes = w.supersedes /\ q.by = d
    <3> HIDE DEF w
    <3> QED
      BY <2>0 DEF DecisionRow
  <2> HIDE DEF r, q
  <2>3. /\ decisions'[d] = r /\ decisions'[e] = q
        /\ \A c \in Decision \ {d, e} : decisions'[c] = decisions[c]
    BY <2>0, <2>1
  <2>4. decisions' \in [Decision -> DecisionRow]
    BY <2>1, <2>2
  <2>5. \A c \in Decision : decisions[c].by # d
    BY <2>0, RecordsAssumption
  <2>6. \A c \in Decision : decisions[c].supersedes # e
    BY <2>0, RecordsAssumption
  <2> QED
    BY <2>0, <2>2, <2>3, <2>4, <2>5, <2>6, RecordsAssumption
<1>3. ASSUME NEW a \in Link, T!RequestApproval(a) \/ \E v \in {"approved", "rejected"} : T!ResolveApproval(a, v)
      PROVE  UNCHANGED decisions
  BY <1>3 DEF T!RequestApproval, T!ResolveApproval
<1> QED
  BY <1>1, <1>2, <1>3 DEF T!RecordNext

TowerInv == WorkInv /\ ChainInv

LEMMA TowerInvAlways == Spec => []TowerInv
<1>1. Init => TowerInv
  BY WorkInvInit, ChainInvInit DEF TowerInv
<1>2. TowerInv /\ [Next]_vars => TowerInv'
  <2>1. WorkInv /\ UNCHANGED <<works, desk>> => WorkInv'
    BY DEF WorkInv, WorkTypes, Earlier, T!Captured
  <2>2. ChainInv /\ UNCHANGED <<decisions, links>> => ChainInv'
    BY DEF ChainInv
  <2> QED
    BY <2>1, <2>2, WorkStep, ChainStep, Followed DEF TowerInv
<1> QED
  BY <1>1, <1>2, PTL DEF Spec

(* While work is open some open item waits for no other, and decisions     *)
(* name their one successor, for any items, decisions and processes.       *)
THEOREM ChainsStaySound == Spec => []ChainsAreSound
<1>1. TowerInv => ChainsAreSound
  <2> SUFFICES ASSUME TowerInv PROVE ChainsAreSound
    OBVIOUS
  <2> DEFINE O == {i \in Item : works[i].status \in T!Open}
  <2>1. O # {} => \E i \in O : works[i].deps \cap O = {}
    BY DEF TowerInv, WorkInv, Earlier
  <2>2. \A i \in Item : works[i].deps \subseteq Item
    BY DEF TowerInv, WorkInv, WorkTypes
  <2>3. \A i \in Item : works[i].deps \cap O = {} => T!Blockers(i) = {}
    BY <2>2 DEF T!Blockers
  <2> QED
    BY <2>1, <2>3 DEF ChainsAreSound, T!ChainsAreSound, TowerInv, ChainInv
<1> QED
  BY <1>1, TowerInvAlways, PTL

-----------------------------------------------------------------------------
(* What moves along a table: work items, approval links, versions, review  *)
(* jobs and gaps. No more than types is needed, since every update is a    *)
(* compare-and-swap with the status that was read.                         *)
LinkStatus == {"absent", "pending", "approved", "rejected"}

StateName == {"absent", "original", "working", "reviewed", "approved", "queued", "in_progress",
              "completed", "failed", "open", "deferred", "resolved"}

MoveTypes ==
    /\ links \in [Link -> LinkStatus]
    /\ states \in [D!Row -> StateName]

WorkMoves(i) == works'[i].status # works[i].status /\ works[i].status # "absent"
                  => works'[i].status \in T!Transitions(works[i].status)
LinkMoves(a)  == links[a] \in {"approved", "rejected"} => links'[a] = links[a]
StateMoves(r) == states'[r] # states[r] /\ states[r] # "absent"
                  => states'[r] \in D!Transitions(r, states[r])

LEMMA WorkMovesLegally == WorkInv /\ T!WorkNext => \A i \in Item : WorkMoves(i)
<1> SUFFICES ASSUME WorkInv, T!WorkNext, NEW i \in Item PROVE WorkMoves(i)
  OBVIOUS
<1> USE DEF WorkInv, WorkTypes
<1>1. ASSUME NEW j \in Item, NEW deps \in SUBSET Item, T!CaptureWork(j, deps)
      PROVE  WorkMoves(i)
  BY <1>1 DEF T!CaptureWork, WorkMoves
<1>2. ASSUME NEW p \in Process, NEW j \in Item, T!ReadForTransition(p, j)
      PROVE  WorkMoves(i)
  BY <1>2 DEF T!ReadForTransition, WorkMoves
<1>3. ASSUME NEW p \in Process, NEW to, T!Transition(p, to)
      PROVE  WorkMoves(i)
  <2>1. PICK j \in Item : j = desk[p].item
    BY <1>3 DEF T!Transition
  <2>2. CASE UNCHANGED works
    BY <2>2 DEF WorkMoves
  <2>3. CASE works[j].status = desk[p].seen /\ works' = [works EXCEPT ![j].status = to]
    <3>1. to \in T!Transitions(works[j].status)
      BY <1>3, <2>3 DEF T!Transition
    <3>2. works'[i] = works[i] \/ (i = j /\ works'[i].status = to)
      BY <2>3
    <3> QED
      BY <3>1, <3>2 DEF WorkMoves
  <2> QED
    BY <1>3, <2>1, <2>2, <2>3 DEF T!Transition
<1> QED
  BY <1>1, <1>2, <1>3 DEF T!WorkNext

LEMMA LinkStep ==
    ASSUME links \in [Link -> LinkStatus], T!RecordNext
    PROVE  links' \in [Link -> LinkStatus] /\ \A a \in Link : LinkMoves(a)
<1>1. ASSUME NEW a \in Link, NEW v \in {"approved", "rejected"},
             T!RequestApproval(a) \/ T!ResolveApproval(a, v)
      PROVE  links' \in [Link -> LinkStatus] /\ \A c \in Link : LinkMoves(c)
  BY <1>1 DEF T!RequestApproval, T!ResolveApproval, LinkMoves, LinkStatus
<1>2. ASSUME UNCHANGED links
      PROVE  links' \in [Link -> LinkStatus] /\ \A c \in Link : LinkMoves(c)
  BY <1>2 DEF LinkMoves
<1> QED
  BY <1>1, <1>2 DEF T!RecordNext, T!Register, T!RegisterInstead

LEMMA StateStep ==
    ASSUME states \in [D!Row -> StateName], D!StateNext \/ D!MapNext \/ D!TaskNext
    PROVE  states' \in [D!Row -> StateName] /\ \A r \in D!Row : StateMoves(r)
<1> DEFINE Goal == states' \in [D!Row -> StateName] /\ \A r \in D!Row : StateMoves(r)
<1>1. ASSUME NEW r \in D!Row, NEW to, to \in StateName, states' = [states EXCEPT ![r] = to],
             states[r] = "absent" \/ to \in D!Transitions(r, states[r])
      PROVE  Goal
  BY <1>1 DEF StateMoves
<1>2. UNCHANGED states => Goal
  BY DEF StateMoves
<1>3. ASSUME NEW r \in D!Row, D!Create(r)
      PROVE  Goal
  <2>1. D!Initial(r) \in StateName
    BY DEF D!Initial, StateName, D!Row
  <2> QED
    BY <1>1, <1>3, <2>1 DEF D!Create
<1>4. ASSUME NEW p \in Process, NEW r \in D!Row, NEW to, author[p].row = r, D!Move(p, to)
      PROVE  Goal
  <2>1. D!Transitions(r, author[p].seen) \subseteq StateName
    BY DEF D!Transitions, D!VersionTransitions, D!JobTransitions, D!GapTransitions, StateName, D!Row
  <2> QED
    BY <1>1, <1>2, <1>4, <2>1 DEF D!Move
<1> QED
  BY <1>2, <1>3, <1>4 DEF D!StateNext, D!MapNext, D!TaskNext, D!ReadState, D!OpenMap, D!InsertParagraph,
       D!Break, D!CaptureTask, D!LinkTask, D!AuditTask, D!Row

(* Work items, decisions, approval links, versions, review jobs and gaps   *)
(* move along their tables and what is final stays so, for any number of   *)
(* processes that act on what they read long before.                       *)
THEOREM StatusesStayLegal == Spec => StatusesMoveLegally
<1>1. Init => MoveTypes
  <2>1. Init => links = [a \in Link |-> "absent"] /\ states = [r \in D!Row |-> "absent"]
    BY DEF Init, T!Init, D!Init
  <2> QED
    BY <2>1 DEF MoveTypes, LinkStatus, StateName
<1>2. MoveTypes /\ [Next]_vars =>
         /\ MoveTypes'
         /\ \A a \in Link : LinkMoves(a)
         /\ \A r \in D!Row : StateMoves(r)
  <2>1. UNCHANGED links => \A a \in Link : LinkMoves(a)
    BY DEF LinkMoves
  <2>2. UNCHANGED states => \A r \in D!Row : StateMoves(r)
    BY DEF StateMoves
  <2> QED
    BY <2>1, <2>2, LinkStep, StateStep, Followed DEF MoveTypes, dissertationVars
<1>3. TowerInv /\ [Next]_vars =>
         /\ \A i \in Item : WorkMoves(i)
         /\ \A d \in Decision : decisions[d].status = "superseded" => decisions'[d] = decisions[d]
  <2>1. UNCHANGED works => \A i \in Item : WorkMoves(i)
    BY DEF WorkMoves
  <2> QED
    BY <2>1, WorkMovesLegally, ChainStep, Followed DEF TowerInv
<1>4. TowerInv /\ MoveTypes /\ [Next]_vars =>
         /\ \A i \in Item :
              works'[i].status # works[i].status /\ works[i].status # "absent"
                => works'[i].status \in T!Transitions(works[i].status)
         /\ \A d \in Decision : decisions[d].status = "superseded" => decisions'[d] = decisions[d]
         /\ \A a \in Link : links[a] \in {"approved", "rejected"} => links'[a] = links[a]
  BY <1>2, <1>3 DEF WorkMoves, LinkMoves
<1>5. MoveTypes /\ [Next]_vars =>
         \A r \in D!Row : states'[r] # states[r] /\ states[r] # "absent"
            => states'[r] \in D!Transitions(r, states[r])
  BY <1>2 DEF StateMoves
<1> QED
  BY <1>1, <1>2, <1>4, <1>5, TowerInvAlways, PTL
  DEF Spec, StatusesMoveLegally, T!MovesLegally, D!MovesLegally
-----------------------------------------------------------------------------
(* Promotion. A handler that promotes a row has a promotion of its own,    *)
(* and once it has made its record that record is there.                   *)
Promoting == {"recording", "sourcing", "auditing_source", "itemizing", "auditing_item", "resolving"}
Recorded  == {"auditing_item", "resolving"}

Handler  == [place : P!Place, row : P!Row \cup {None}, update : Update \cup {None}, try : Nat]
TheRow   == [status : P!Status, update : Update \cup {None}, fresh : BOOLEAN, target : Nat]

PromotionTypes ==
    /\ rows \in [P!Row -> TheRow]
    /\ doing \in [Process -> Handler]
    /\ tries \in 0..MaxTries
    /\ told \subseteq 1..tries

HandlerKnows(d, begun, made) ==
    /\ d.try \in 0..begun
    /\ d.place \in Promoting => d.row \in P!Row /\ d.try # 0
    /\ d.place \in Recorded => [row |-> d.row, try |-> d.try] \in made
    /\ d.place = "dismissing" => d.row \in P!Row

HandlersKnow ==
    \A p \in Process :
        /\ HandlerKnows(doing[p], tries, items)
        /\ \A q \in Process : doing[q].try = doing[p].try /\ doing[p].try # 0 => p = q

Captured == \A n \in Intake : rows[n].update # None => rows[n].status # "absent"

PromotionInv == PromotionTypes /\ HandlersKnow /\ Captured /\ PromotedOnce

LEMMA PromotionInvInit == Init => PromotionInv
<1> SUFFICES ASSUME Init PROVE PromotionInv
  OBVIOUS
<1>1. P!Init
  BY DEF Init
<1>2. PromotionTypes
  <2>1. P!Idle \in Handler
    BY DEF P!Idle, P!Place, Handler
  <2>2. [status |-> "absent", update |-> None, fresh |-> FALSE, target |-> 0] \in TheRow
    BY DEF TheRow, P!Status
  <2> QED
    BY <1>1, <2>1, <2>2, RecordsAssumption DEF PromotionTypes, P!Init
<1>3. HandlersKnow /\ Captured
  BY <1>1, RecordsAssumption DEF P!Init, P!Idle, HandlersKnow, HandlerKnows, Captured, P!Row, Promoting, Recorded
<1>4. PromotedOnce
  BY <1>1, RecordsAssumption DEF P!Init, P!Idle, PromotedOnce, P!PromotedOnce, P!Row, P!Try
<1> QED
  BY <1>2, <1>3, <1>4 DEF PromotionInv

(* A step that moves a handler on and leaves the rows alone.               *)
LEMMA HandlerMoves ==
    \A p \in Process, new \in Handler :
        /\ PromotionInv
        /\ doing' = [doing EXCEPT ![p] = new]
        /\ items \subseteq items' /\ rows' = rows /\ tries' = tries /\ told' = told
        /\ new.try = 0 \/ new.try = doing[p].try
        /\ HandlerKnows(new, tries, items')
        => PromotionInv'
<1> SUFFICES ASSUME NEW p \in Process, NEW new \in Handler, PromotionInv,
                    doing' = [doing EXCEPT ![p] = new],
                    items \subseteq items', rows' = rows, tries' = tries, told' = told,
                    new.try = 0 \/ new.try = doing[p].try,
                    HandlerKnows(new, tries, items')
             PROVE  PromotionInv'
  OBVIOUS
<1>0. \A q \in Process : doing'[q] = IF q = p THEN new ELSE doing[q]
  BY DEF PromotionInv, PromotionTypes
<1>1. PromotionTypes'
  BY DEF PromotionInv, PromotionTypes
<1>2. HandlersKnow'
  <2> SUFFICES ASSUME NEW q \in Process
               PROVE  /\ HandlerKnows(doing'[q], tries', items')
                      /\ \A o \in Process : doing'[o].try = doing'[q].try /\ doing'[q].try # 0 => q = o
    BY DEF HandlersKnow
  <2>2. HandlerKnows(doing'[q], tries', items')
    BY <1>0 DEF PromotionInv, HandlersKnow, HandlerKnows
  <2>3. \A o \in Process : doing'[o].try = doing'[q].try /\ doing'[q].try # 0 => q = o
    BY <1>0 DEF PromotionInv, HandlersKnow
  <2> QED
    BY <2>2, <2>3
<1>3. Captured'
  BY DEF PromotionInv, Captured
<1>4. PromotedOnce'
  <2>1. told \cap {doing'[q].try : q \in Process} = {}
    <3> SUFFICES ASSUME NEW q \in Process, doing'[q].try \in told PROVE FALSE
      OBVIOUS
    <3>1. doing'[q].try = 0 \/ doing'[q].try = doing[q].try
      BY <1>0
    <3> QED
      BY <3>1 DEF PromotionInv, PromotionTypes, PromotedOnce, P!PromotedOnce
  <2> QED
    BY <2>1 DEF PromotionInv, PromotedOnce, P!PromotedOnce
<1> QED
  BY <1>1, <1>2, <1>3, <1>4 DEF PromotionInv
LEMMA HandlerSteps ==
    ASSUME PromotionInv, NEW p \in Process,
           \/ \E u \in Update : P!OpenCapture(p, u)
           \/ \E r \in P!Row : P!OpenDismiss(p, r)
           \/ P!FindDuplicate(p) \/ P!Break(p)
           \/ P!Record(p) \/ P!MakeSource(p) \/ P!AuditSource(p) \/ P!MakeItem(p) \/ P!AuditItem(p)
    PROVE  PromotionInv'
<1>0. /\ P!Idle \in Handler /\ P!Idle.try = 0 /\ P!Idle.place = "idle"
      /\ doing[p] \in Handler /\ HandlerKnows(doing[p], tries, items) /\ tries \in Nat
  BY DEF P!Idle, P!Place, Handler, PromotionInv, PromotionTypes, HandlersKnow
<1>1. ASSUME NEW u \in Update, P!OpenCapture(p, u)
      PROVE  PromotionInv'
  <2> DEFINE new == [P!Idle EXCEPT !.place = "looking", !.update = u]
  <2>1. new \in Handler /\ new.try = 0 /\ new.place = "looking"
    BY <1>0 DEF P!Idle, Handler, P!Place
  <2>2. doing' = [doing EXCEPT ![p] = new] /\ UNCHANGED <<items, rows, tries, told>>
    BY <1>1 DEF P!OpenCapture, P!Goto
  <2>3. HandlerKnows(new, tries, items')
    BY <1>0, <2>1 DEF HandlerKnows, Promoting, Recorded
  <2> HIDE DEF new
  <2> QED
    BY <2>1, <2>2, <2>3, HandlerMoves
<1>2. ASSUME NEW r \in P!Row, P!OpenDismiss(p, r)
      PROVE  PromotionInv'
  <2> DEFINE new == [P!Idle EXCEPT !.place = "dismissing", !.row = r]
  <2>1. new \in Handler /\ new.try = 0 /\ new.place = "dismissing" /\ new.row = r
    BY <1>0 DEF P!Idle, Handler, P!Place
  <2>2. doing' = [doing EXCEPT ![p] = new] /\ UNCHANGED <<items, rows, tries, told>>
    BY <1>2 DEF P!OpenDismiss, P!Goto
  <2>3. HandlerKnows(new, tries, items')
    BY <1>0, <2>1 DEF HandlerKnows, Promoting, Recorded
  <2> HIDE DEF new
  <2> QED
    BY <2>1, <2>2, <2>3, HandlerMoves
<1>3. ASSUME P!Goto(p, P!Idle), UNCHANGED <<items, rows, tries, told>>
      PROVE  PromotionInv'
  <2>1. HandlerKnows(P!Idle, tries, items')
    BY <1>0 DEF HandlerKnows, Promoting, Recorded
  <2> QED
    BY <1>0, <1>3, <2>1, HandlerMoves DEF P!Goto
<1>4. ASSUME NEW step \in P!Place \ {"dismissing"}, P!Continue(p, step),
             items \subseteq items', rows' = rows, tries' = tries, told' = told,
             step \in Promoting => doing[p].place \in Promoting,
             step \in Recorded => P!Mine(p) \in items'
      PROVE  PromotionInv'
  <2> DEFINE new == [doing[p] EXCEPT !.place = step]
  <2>1. new \in Handler /\ new.try = doing[p].try /\ new.row = doing[p].row /\ new.place = step
    BY <1>0 DEF Handler
  <2>2. doing' = [doing EXCEPT ![p] = new]
    BY <1>4 DEF P!Continue, P!Goto
  <2> HIDE DEF new
  <2>3. HandlerKnows(new, tries, items')
    BY <1>0, <1>4, <2>1 DEF HandlerKnows, P!Mine
  <2> QED
    BY <1>4, <2>1, <2>2, <2>3, HandlerMoves
<1>5. CASE P!FindDuplicate(p)
  <2>1. CASE P!Goto(p, P!Idle)
    BY <1>3, <1>5, <2>1 DEF P!FindDuplicate
  <2>2. CASE P!Continue(p, "inserting")
    BY <1>4, <1>5, <2>2 DEF P!FindDuplicate, P!Place, Promoting, Recorded
  <2> QED
    BY <1>5, <2>1, <2>2 DEF P!FindDuplicate
<1>6. CASE P!Break(p)
  BY <1>3, <1>6 DEF P!Break
<1>7. CASE P!Record(p)
  BY <1>4, <1>7 DEF P!Record, P!Place, Promoting, Recorded
<1>8. CASE P!MakeSource(p) \/ P!AuditSource(p)
  BY <1>4, <1>8 DEF P!MakeSource, P!AuditSource, P!Place, Promoting, Recorded
<1>9. CASE P!MakeItem(p)
  BY <1>4, <1>9 DEF P!MakeItem, P!Place, Promoting, Recorded
<1>10. CASE P!AuditItem(p)
  <2>1. P!Mine(p) \in items
    BY <1>0, <1>10 DEF P!AuditItem, HandlerKnows, Recorded, P!Mine
  <2> QED
    BY <1>4, <1>10, <2>1 DEF P!AuditItem, P!Place, Promoting, Recorded
<1> QED
  BY <1>1, <1>2, <1>5, <1>6, <1>7, <1>8, <1>9, <1>10

(* A promotion is begun: it is one nobody was answered for.                *)
LEMMA PromotionBegins ==
    ASSUME PromotionInv, NEW p \in Process, NEW r \in P!Row, NEW first \in {"recording", "sourcing"},
           P!OpenPromote(p, r, first)
    PROVE  PromotionInv'
<1> DEFINE new == [P!Idle EXCEPT !.place = first, !.row = r, !.try = tries + 1]
<1>0. tries \in Nat /\ tries < MaxTries /\ tries' = tries + 1 /\ UNCHANGED <<rows, items, told>>
  BY RecordsAssumption DEF P!OpenPromote, PromotionInv, PromotionTypes
<1>1. new \in Handler /\ new.try = tries + 1 /\ new.place = first /\ new.row = r
  <2> DEFINE n == tries + 1
  <2>1. first \in P!Place /\ n \in Nat
    BY <1>0 DEF P!Place
  <2>2. new = [P!Idle EXCEPT !.place = first, !.row = r, !.try = n]
    OBVIOUS
  <2> HIDE DEF n
  <2>3. new.try = n /\ new.place = first /\ new.row = r
    BY <2>2 DEF P!Idle
  <2>4. new \in Handler
    BY <2>1, <2>2 DEF P!Idle, Handler
  <2> QED
    BY <2>3, <2>4 DEF n
<1>2. doing' = [doing EXCEPT ![p] = new]
  BY <1>0 DEF P!OpenPromote, P!Goto
<1> HIDE DEF new
<1>3. \A q \in Process : doing'[q] = IF q = p THEN new ELSE doing[q]
  BY <1>2 DEF PromotionInv, PromotionTypes
<1>4. \A q \in Process : doing[q].try \in 0..tries
  BY DEF PromotionInv, HandlersKnow, HandlerKnows
<1>5. PromotionTypes'
  BY <1>0, <1>1, <1>2, RecordsAssumption DEF PromotionInv, PromotionTypes
<1>6. HandlersKnow'
  <2> SUFFICES ASSUME NEW q \in Process
               PROVE  /\ HandlerKnows(doing'[q], tries', items')
                      /\ \A o \in Process : doing'[o].try = doing'[q].try /\ doing'[q].try # 0 => q = o
    BY DEF HandlersKnow
  <2>1. HandlerKnows(new, tries', items')
    BY <1>0, <1>1 DEF HandlerKnows, Recorded
  <2>2. HandlerKnows(doing[q], tries', items')
    BY <1>0 DEF PromotionInv, HandlersKnow, HandlerKnows
  <2>3. \A o \in Process : doing'[o].try = doing'[q].try /\ doing'[q].try # 0 => q = o
    <3> SUFFICES ASSUME NEW o \in Process, doing'[o].try = doing'[q].try, doing'[q].try # 0, q # o
                 PROVE  FALSE
      OBVIOUS
    <3>1. doing[q].try = doing[o].try /\ doing[q].try # 0 => q = o
      BY DEF PromotionInv, HandlersKnow
    <3> QED
      BY <1>0, <1>1, <1>3, <1>4, <3>1
  <2> QED
    BY <1>3, <2>1, <2>2, <2>3
<1>7. Captured'
  BY <1>0 DEF PromotionInv, Captured
<1>8. PromotedOnce'
  <2>1. told \cap {doing'[q].try : q \in Process} = {}
    <3> SUFFICES ASSUME NEW q \in Process, doing'[q].try \in told PROVE FALSE
      OBVIOUS
    <3>1. CASE q = p
      BY <1>0, <1>1, <1>3, <3>1 DEF PromotionInv, PromotionTypes
    <3>2. CASE q # p
      BY <1>3, <3>2 DEF PromotionInv, PromotedOnce, P!PromotedOnce
    <3> QED
      BY <3>1, <3>2
  <2> QED
    BY <1>0, <2>1 DEF PromotionInv, PromotedOnce, P!PromotedOnce
<1> QED
  BY <1>5, <1>6, <1>7, <1>8 DEF PromotionInv
(* What becomes of the handlers when one of them is done.                  *)
LEMMA HandlerDone ==
    ASSUME PromotionInv, NEW p \in Process, P!Goto(p, P!Idle), UNCHANGED <<items, tries>>
    PROVE  /\ doing' \in [Process -> Handler]
           /\ HandlersKnow'
           /\ \A q \in Process : doing'[q].try = 0 \/ (q # p /\ doing'[q].try = doing[q].try)
<1>0. /\ P!Idle \in Handler /\ P!Idle.try = 0 /\ P!Idle.place = "idle" /\ tries \in Nat
      /\ doing' = [doing EXCEPT ![p] = P!Idle] /\ doing \in [Process -> Handler]
  BY DEF P!Idle, P!Place, Handler, PromotionInv, PromotionTypes, P!Goto
<1>1. \A q \in Process : doing'[q] = IF q = p THEN P!Idle ELSE doing[q]
  BY <1>0
<1>2. HandlerKnows(P!Idle, tries, items)
  BY <1>0 DEF HandlerKnows, Promoting, Recorded
<1>3. HandlersKnow'
  BY <1>0, <1>1, <1>2 DEF PromotionInv, HandlersKnow
<1> QED
  BY <1>0, <1>1, <1>3

LEMMA RowSteps ==
    ASSUME PromotionInv,
           \/ \E n \in Intake : P!Age(n)
           \/ \E p \in Process, r \in Ref : P!Propose(p, r)
    PROVE  PromotionInv'
<1>0. Intake \subseteq P!Row /\ Ref \subseteq P!Row
  BY DEF P!Row
<1>1. UNCHANGED <<items, tries, told, doing>>
  BY DEF P!Age, P!Propose
<1>2. /\ rows' \in [P!Row -> TheRow]
      /\ \A r \in P!Row : /\ rows'[r].update = rows[r].update
                          /\ rows'[r].target = rows[r].target
                          /\ rows'[r].status = "confirmed" <=> rows[r].status = "confirmed"
                          /\ rows[r].status # "absent" => rows'[r].status # "absent"
  <2>1. ASSUME NEW n \in Intake, P!Age(n)
        PROVE  <1>2!:
    BY <1>0, <2>1 DEF P!Age, PromotionInv, PromotionTypes, TheRow
  <2>2. ASSUME NEW p \in Process, NEW r \in Ref, P!Propose(p, r)
        PROVE  <1>2!:
    BY <1>0, <2>2 DEF P!Propose, PromotionInv, PromotionTypes, TheRow, P!Status
  <2> QED
    BY <2>1, <2>2
<1>3. HandlersKnow'
  BY <1>1 DEF PromotionInv, HandlersKnow
<1>4. Captured'
  BY <1>0, <1>2 DEF PromotionInv, Captured
<1>5. {rows'[r].target : r \in P!Row} = {rows[r].target : r \in P!Row}
  BY <1>2
<1>6. PromotedOnce'
  BY <1>0, <1>1, <1>2, <1>5 DEF PromotionInv, PromotedOnce, P!PromotedOnce
<1> QED
  BY <1>1, <1>2, <1>3, <1>4, <1>6 DEF PromotionInv, PromotionTypes

(* The unique index: a second row of a message is not written.             *)
LEMMA RowInserted ==
    ASSUME PromotionInv, NEW p \in Process, P!Insert(p)
    PROVE  PromotionInv'
<1>0. Intake \subseteq P!Row /\ UNCHANGED <<items, tries, told>>
  BY DEF P!Row, P!Insert
<1>1. /\ doing' \in [Process -> Handler] /\ HandlersKnow'
      /\ \A q \in Process : doing'[q].try = 0 \/ doing'[q].try = doing[q].try
  BY <1>0, HandlerDone DEF P!Insert
<1>2. CASE rows' = rows
  BY <1>0, <1>1, <1>2 DEF PromotionInv, PromotionTypes, Captured, PromotedOnce, P!PromotedOnce
<1>3. ASSUME NEW n \in Intake, rows[n].status = "absent", ~P!Seen(doing[p].update),
             rows' = [rows EXCEPT ![n] = [status |-> "pending", update |-> doing[p].update,
                                         fresh |-> TRUE, target |-> 0]]
      PROVE  PromotionInv'
  <2> DEFINE row == [status |-> "pending", update |-> doing[p].update, fresh |-> TRUE, target |-> 0]
  <2>1. row \in TheRow
    BY DEF TheRow, P!Status, PromotionInv, PromotionTypes, Handler
  <2>2. row.status = "pending" /\ row.update = doing[p].update /\ row.target = 0
    OBVIOUS
  <2>3. rows' = [rows EXCEPT ![n] = row]
    BY <1>3
  <2> HIDE DEF row
  <2>4. \A r \in P!Row : rows'[r] = IF r = n THEN row ELSE rows[r]
    BY <1>0, <2>3 DEF PromotionInv, PromotionTypes
  <2>5. PromotionTypes'
    BY <1>0, <1>1, <2>1, <2>3 DEF PromotionInv, PromotionTypes
  <2>6. Captured'
    BY <1>0, <2>2, <2>4 DEF PromotionInv, Captured
  <2>7. \A m, o \in Intake : rows'[m].update = rows'[o].update /\ rows'[m].update # None => m = o
    BY <1>0, <1>3, <2>2, <2>4 DEF PromotionInv, Captured, PromotedOnce, P!PromotedOnce, P!Seen
  <2>8. rows[n].target \notin P!Try /\ row.target \notin P!Try
    <3>1. row.target \notin P!Try
      BY <2>2, RecordsAssumption DEF P!Try
    <3> QED
      BY <1>0, <1>3, <3>1 DEF PromotionInv, PromotedOnce, P!PromotedOnce
  <2>9. {rows'[r].target : r \in P!Row} \cap P!Try = {rows[r].target : r \in P!Row} \cap P!Try
    BY <1>0, <2>4, <2>8
  <2>10. \A r \in P!Row :
          /\ rows'[r].status = "confirmed" <=> rows'[r].target \in P!Try
          /\ rows'[r].status = "confirmed" => [row |-> r, try |-> rows'[r].target] \in items
    BY <2>2, <2>4, <2>8 DEF PromotionInv, PromotedOnce, P!PromotedOnce
  <2>11. told \cap {doing'[q].try : q \in Process} = {}
    BY <1>1 DEF PromotionInv, PromotionTypes, PromotedOnce, P!PromotedOnce
  <2> QED
    BY <1>0, <1>1, <2>5, <2>6, <2>7, <2>9, <2>10, <2>11 DEF PromotionInv, PromotedOnce, P!PromotedOnce
<1> QED
  BY <1>2, <1>3 DEF P!Insert

(* The compare-and-swap: of the handlers that promote a row one writes     *)
(* what it made of it.                                                     *)
LEMMA RowResolved ==
    ASSUME PromotionInv, NEW p \in Process, P!Resolve(p) \/ P!Dismiss(p)
    PROVE  PromotionInv'
<1> DEFINE r == doing[p].row
           t == doing[p].try
<1>0. UNCHANGED <<items, tries>> /\ r \in P!Row /\ t \in 0..tries
  BY DEF P!Resolve, P!Dismiss, PromotionInv, HandlersKnow, HandlerKnows, Promoting
<1>1. /\ doing' \in [Process -> Handler] /\ HandlersKnow'
      /\ \A q \in Process : doing'[q].try = 0 \/ (q # p /\ doing'[q].try = doing[q].try)
  BY <1>0, HandlerDone DEF P!Resolve, P!Dismiss
<1>2. CASE UNCHANGED <<rows, told>>
  BY <1>0, <1>1, <1>2 DEF PromotionInv, PromotionTypes, Captured, PromotedOnce, P!PromotedOnce
<1>3. CASE rows[r].status = "pending" /\ P!Dismiss(p)
  <2>1. rows' = [rows EXCEPT ![r].status = "dismissed"] /\ told' = told
    BY <1>3 DEF P!Dismiss
  <2>2. \A o \in P!Row : /\ rows'[o].update = rows[o].update /\ rows'[o].target = rows[o].target
                         /\ o # r => rows'[o] = rows[o]
                         /\ o = r => rows'[o].status = "dismissed"
    BY <1>0, <2>1 DEF PromotionInv, PromotionTypes, TheRow
  <2>3. rows' \in [P!Row -> TheRow]
    BY <1>0, <2>1 DEF PromotionInv, PromotionTypes, TheRow, P!Status
  <2>4. Captured'
    BY <1>0, <2>2 DEF PromotionInv, Captured, P!Row
  <2>5. {rows'[o].target : o \in P!Row} = {rows[o].target : o \in P!Row}
    BY <2>2
  <2>6. told \cap {doing'[q].try : q \in Process} = {}
    BY <1>1 DEF PromotionInv, PromotionTypes, PromotedOnce, P!PromotedOnce
  <2>7. \A m, o \in Intake : rows'[m].update = rows'[o].update /\ rows'[m].update # None => m = o
    BY <2>2 DEF PromotionInv, PromotedOnce, P!PromotedOnce, P!Row
  <2>8. \A o \in P!Row :
          /\ rows'[o].status = "confirmed" <=> rows'[o].target \in P!Try
          /\ rows'[o].status = "confirmed" => [row |-> o, try |-> rows'[o].target] \in items
    BY <1>0, <1>3, <2>2 DEF PromotionInv, PromotedOnce, P!PromotedOnce
  <2> QED
    BY <1>0, <1>1, <2>1, <2>3, <2>4, <2>5, <2>6, <2>7, <2>8
    DEF PromotionInv, PromotionTypes, PromotedOnce, P!PromotedOnce
<1>4. CASE rows[r].status = "pending" /\ P!Resolve(p)
  <2>1. /\ rows' = [rows EXCEPT ![r].status = "confirmed", ![r].target = t]
        /\ told' = told \cup {t} /\ t \in 1..tries /\ [row |-> r, try |-> t] \in items
    BY <1>0, <1>4 DEF P!Resolve, PromotionInv, HandlersKnow, HandlerKnows, Promoting, Recorded
  <2> HIDE DEF r, t
  <2>2. \A o \in P!Row : /\ rows'[o].update = rows[o].update
                         /\ o # r => rows'[o] = rows[o]
                         /\ o = r => rows'[o].status = "confirmed" /\ rows'[o].target = t
    BY <1>0, <2>1 DEF PromotionInv, PromotionTypes, TheRow
  <2>3. t \in Nat /\ t \in P!Try
    BY <2>1, RecordsAssumption DEF PromotionInv, PromotionTypes, P!Try
  <2>4. rows' \in [P!Row -> TheRow]
    BY <1>0, <2>1, <2>3 DEF PromotionInv, PromotionTypes, TheRow, P!Status
  <2>5. told' \subseteq 1..tries
    BY <2>1 DEF PromotionInv, PromotionTypes
  <2>6. Captured'
    BY <1>0, <2>2 DEF PromotionInv, Captured, P!Row
  <2>7. rows[r].target \notin P!Try
    BY <1>0, <1>4 DEF PromotionInv, PromotedOnce, P!PromotedOnce
  <2>8. {rows'[o].target : o \in P!Row} \cap P!Try = ({rows[o].target : o \in P!Row} \cap P!Try) \cup {t}
    BY <1>0, <2>2, <2>3, <2>7
  <2>9. \A q \in Process : q # p /\ doing[q].try # 0 => doing[q].try # t
    BY DEF PromotionInv, HandlersKnow, t
  <2>10. told' \cap {doing'[q].try : q \in Process} = {}
    <3> SUFFICES ASSUME NEW q \in Process, doing'[q].try \in told \cup {t} PROVE FALSE
      BY <2>1
    <3> QED
      BY <1>1, <2>1, <2>9 DEF PromotionInv, PromotionTypes, PromotedOnce, P!PromotedOnce
  <2>11. \A m, o \in Intake : rows'[m].update = rows'[o].update /\ rows'[m].update # None => m = o
    BY <2>2 DEF PromotionInv, PromotedOnce, P!PromotedOnce, P!Row
  <2>12. \A o \in P!Row :
          /\ rows'[o].status = "confirmed" <=> rows'[o].target \in P!Try
          /\ rows'[o].status = "confirmed" => [row |-> o, try |-> rows'[o].target] \in items
    BY <1>0, <2>1, <2>2, <2>3 DEF PromotionInv, PromotedOnce, P!PromotedOnce
  <2> QED
    BY <1>0, <1>1, <2>1, <2>4, <2>5, <2>6, <2>8, <2>10, <2>11, <2>12
    DEF PromotionInv, PromotionTypes, PromotedOnce, P!PromotedOnce
<1> QED
  BY <1>2, <1>3, <1>4 DEF P!Resolve, P!Dismiss

(* A message becomes one row, and a row names the one record its answered  *)
(* promotion made, whatever broke before or after it, for any number of    *)
(* processes, messages, rows and promotions.                               *)
THEOREM RowsArePromotedOnce == Spec => []PromotedOnce
<1>1. PromotionInv /\ [Next]_vars => PromotionInv'
  <2> SUFFICES ASSUME PromotionInv, [Next]_vars PROVE PromotionInv'
    OBVIOUS
  <2>1. CASE UNCHANGED promotionVars
    BY <2>1 DEF promotionVars, PromotionInv, PromotionTypes, HandlersKnow, Captured, PromotedOnce, P!PromotedOnce
  <2>2. CASE P!Next
    BY <2>2, HandlerSteps, PromotionBegins, RowSteps, RowInserted, RowResolved DEF P!Next
  <2> QED
    BY <2>1, <2>2, Followed
<1>2. PromotionInv => PromotedOnce
  BY DEF PromotionInv
<1> QED
  BY <1>1, <1>2, PromotionInvInit, PTL DEF Spec
-----------------------------------------------------------------------------
(* Paragraph maps. Of the callers that build the map of a version one has  *)
(* got past the first paragraph, and the map ends where he is.             *)
Locals == [place : {"idle", "moving", "mapping", "linking", "auditing"},
           row : D!Row \cup Topic \cup {None}, seen : StateName, next : Nat, count : Nat]

MapTypes ==
    /\ states \in [D!Row -> StateName]
    /\ map \in [Version -> SUBSET Nat]
    /\ whole \in [Version -> SUBSET Nat]
    /\ author \in [Process -> Locals]

BuilderKnows(a, maps) ==
    a.place = "mapping" =>
        /\ a.row \in Version
        /\ a.next \in 1..a.count
        /\ a.next > 1 => maps[a.row] = 1..(a.next - 1)

Ahead(a, v) == a.place = "mapping" /\ a.row = v /\ a.next > 1

OneBuilder ==
    \A p \in Process :
        /\ BuilderKnows(author[p], map)
        /\ \A q \in Process, v \in Version : Ahead(author[p], v) /\ Ahead(author[q], v) => p = q

MapsGrow ==
    \A v \in Version :
        /\ \E m \in Nat : map[v] = 1..m
        /\ \A n \in whole[v] : n > 0 /\ map[v] = 1..n /\ \A p \in Process : ~Ahead(author[p], v)

MapInv == MapTypes /\ OneBuilder /\ MapsGrow

LEMMA MapInvInit == Init => MapInv
<1> SUFFICES ASSUME Init PROVE MapInv
  OBVIOUS
<1>1. /\ states = [r \in D!Row |-> "absent"]
      /\ map = [v \in Version |-> {}] /\ whole = [v \in Version |-> {}]
      /\ author = [p \in Process |-> D!Idle]
  BY DEF Init, D!Init
<1>2. D!Idle \in Locals /\ D!Idle.place = "idle"
  BY DEF D!Idle, Locals, StateName
<1>3. MapTypes
  BY <1>1, <1>2 DEF MapTypes, StateName
<1>4. OneBuilder
  BY <1>1, <1>2 DEF OneBuilder, BuilderKnows, Ahead
<1>5. MapsGrow
  <2>1. 1..0 = {}
    OBVIOUS
  <2> QED
    BY <1>1, <2>1 DEF MapsGrow
<1> QED
  BY <1>3, <1>4, <1>5 DEF MapInv

(* A step that moves a caller on, to the first paragraph at most, and      *)
(* leaves the maps alone.                                                  *)
LEMMA AuthorMoves ==
    \A p \in Process, new \in Locals :
        /\ MapInv
        /\ states' \in [D!Row -> StateName]
        /\ author' = [author EXCEPT ![p] = new] /\ map' = map /\ whole' = whole
        /\ new.place = "mapping" => new.row \in Version /\ new.next = 1 /\ new.next <= new.count
        => MapInv'
<1> SUFFICES ASSUME NEW p \in Process, NEW new \in Locals, MapInv,
                    states' \in [D!Row -> StateName],
                    author' = [author EXCEPT ![p] = new], map' = map, whole' = whole,
                    new.place = "mapping" => new.row \in Version /\ new.next = 1 /\ new.next <= new.count
             PROVE  MapInv'
  OBVIOUS
<1>1. \A q \in Process : author'[q] = IF q = p THEN new ELSE author[q]
  BY DEF MapInv, MapTypes
<1>2. BuilderKnows(new, map) /\ \A v \in Version : ~Ahead(new, v)
  BY DEF BuilderKnows, Ahead, Locals
<1>3. MapTypes'
  BY DEF MapInv, MapTypes
<1>4. OneBuilder'
  <2> SUFFICES ASSUME NEW q \in Process
               PROVE  /\ BuilderKnows(author'[q], map)
                      /\ \A o \in Process, v \in Version :
                            Ahead(author'[q], v) /\ Ahead(author'[o], v) => q = o
    BY DEF OneBuilder, BuilderKnows, Ahead
  <2> QED
    BY <1>1, <1>2 DEF MapInv, OneBuilder
<1>5. MapsGrow'
  <2>1. \A q \in Process, v \in Version : Ahead(author'[q], v) => Ahead(author[q], v)
    BY <1>1, <1>2
  <2>2. \A v \in Version : \A n \in whole[v], q \in Process : ~Ahead(author'[q], v)
    BY <2>1 DEF MapInv, MapsGrow
  <2> QED
    BY <2>2 DEF MapInv, MapsGrow, Ahead
<1> QED
  BY <1>3, <1>4, <1>5 DEF MapInv

(* The next paragraph: the map grows at its end, and if it was of another  *)
(* caller's making its first paragraph was there already.                  *)
LEMMA ParagraphInserted ==
    ASSUME MapInv, NEW p \in Process, D!InsertParagraph(p), author[p].next \notin map[author[p].row],
           states' = states
    PROVE  MapInv'
<1> DEFINE v == author[p].row
           n == author[p].next
<1>0. /\ author[p].place = "mapping" /\ v \in Version
      /\ author[p] \in Locals /\ n \in Nat /\ n > 0 /\ author[p].count \in Nat /\ n <= author[p].count
      /\ n > 1 => map[v] = 1..(n - 1)
  BY DEF D!InsertParagraph, MapInv, MapTypes, OneBuilder, BuilderKnows, Locals
<1>1. map' = [map EXCEPT ![v] = @ \cup {n}] /\ D!Advance(p, v)
  BY DEF D!InsertParagraph
<1>2. map[v] = 1..(n - 1)
  <2>1. PICK m \in Nat : map[v] = 1..m
    BY <1>0 DEF MapInv, MapsGrow
  <2>2. CASE n = 1
    <3>1. m = 0
      BY <2>1, <2>2
    <3>2. 1..0 = 1..(n - 1)
      BY <2>2
    <3> QED
      BY <2>1, <3>1, <3>2
  <2> QED
    BY <1>0, <2>2
<1> HIDE DEF n, v
<1>3. map'[v] = 1..n /\ \A u \in Version : u # v => map'[u] = map[u]
  <2>1. (1..(n - 1)) \cup {n} = 1..n
    BY <1>0
  <2> QED
    BY <1>0, <1>1, <1>2, <2>1 DEF MapInv, MapTypes
<1>4. map' \in [Version -> SUBSET Nat]
  BY <1>0, <1>1 DEF MapInv, MapTypes
<1>5. whole[v] = {}
  <2> SUFFICES ASSUME NEW k \in whole[v] PROVE FALSE
    OBVIOUS
  <2>1. k \in Nat /\ k > 0 /\ map[v] = 1..k /\ ~Ahead(author[p], v)
    BY <1>0 DEF MapInv, MapTypes, MapsGrow
  <2>2. n = 1
    BY <1>0, <2>1 DEF Ahead, v, n
  <2>3. 1 \in 1..k /\ 1 \notin 1..(n - 1)
    BY <2>1, <2>2
  <2> QED
    BY <1>2, <2>1, <2>3
<1>6. \A q \in Process : q # p => ~Ahead(author[q], v)
  <2> SUFFICES ASSUME NEW q \in Process, q # p, Ahead(author[q], v) PROVE FALSE
    OBVIOUS
  <2>1. author[q].next \in Nat /\ author[q].next > 1 /\ map[v] = 1..(author[q].next - 1)
    BY DEF MapInv, MapTypes, Locals, OneBuilder, BuilderKnows, Ahead
  <2>2. 1 \in map[v]
    BY <2>1
  <2>3. n > 1
    BY <1>0, <1>2, <2>2
  <2>4. Ahead(author[p], v)
    BY <1>0, <2>3 DEF Ahead, v, n
  <2> QED
    BY <1>0, <2>4 DEF MapInv, OneBuilder
<1>7. ASSUME NEW new \in Locals, author' = [author EXCEPT ![p] = new],
             BuilderKnows(new, map'), \A u \in Version : u # v => ~Ahead(new, u),
             \/ whole' = whole
             \/ whole' = [whole EXCEPT ![v] = @ \cup {n}] /\ ~Ahead(new, v)
      PROVE  MapInv'
  <2>1. \A q \in Process : author'[q] = IF q = p THEN new ELSE author[q]
    BY <1>7 DEF MapInv, MapTypes
  <2>2. MapTypes'
    BY <1>0, <1>4, <1>7 DEF MapInv, MapTypes
  <2>3. \A q \in Process : BuilderKnows(author'[q], map')
    <3> SUFFICES ASSUME NEW q \in Process, q # p PROVE BuilderKnows(author[q], map')
      BY <1>7, <2>1
    <3> QED
      BY <1>3, <1>6 DEF MapInv, OneBuilder, BuilderKnows, Ahead
  <2>4. \A q, o \in Process, u \in Version : Ahead(author'[q], u) /\ Ahead(author'[o], u) => q = o
    BY <1>6, <1>7, <2>1 DEF MapInv, OneBuilder
  <2>5. OneBuilder'
    BY <2>3, <2>4 DEF OneBuilder, BuilderKnows, Ahead
  <2>6. ASSUME NEW u \in Version
        PROVE  /\ \E m \in Nat : map'[u] = 1..m
               /\ \A k \in whole'[u] : k > 0 /\ map'[u] = 1..k /\ \A q \in Process : ~Ahead(author'[q], u)
    <3>1. CASE u # v
      <4>1. whole'[u] = whole[u] /\ map'[u] = map[u]
        BY <1>0, <1>3, <1>7, <3>1 DEF MapInv, MapTypes
      <4>2. \A q \in Process : Ahead(author'[q], u) => Ahead(author[q], u)
        BY <1>7, <2>1, <3>1
      <4> QED
        BY <4>1, <4>2 DEF MapInv, MapsGrow
    <3>2. CASE u = v
      <4>1. \A k \in whole'[v] : k = n /\ ~Ahead(new, v)
        BY <1>0, <1>5, <1>7 DEF MapInv, MapTypes
      <4> QED
        BY <1>0, <1>3, <1>6, <2>1, <3>2, <4>1
    <3> QED
      BY <3>1, <3>2
  <2>7. MapsGrow'
    BY <2>6 DEF MapsGrow, Ahead
  <2> QED
    BY <2>2, <2>5, <2>7 DEF MapInv
<1>8. CASE n = author[p].count
  <2>1. D!Idle \in Locals /\ D!Idle.place = "idle"
    BY DEF D!Idle, Locals, StateName
  <2>2. whole' = [whole EXCEPT ![v] = @ \cup {n}] /\ author' = [author EXCEPT ![p] = D!Idle]
    BY <1>1, <1>8 DEF D!Advance, D!Goto, n
  <2> QED
    BY <1>7, <2>1, <2>2 DEF BuilderKnows, Ahead
<1>9. CASE n # author[p].count
  <2> DEFINE new == [author[p] EXCEPT !.next = @ + 1]
  <2>1. whole' = whole /\ author' = [author EXCEPT ![p] = new]
    BY <1>1, <1>9 DEF D!Advance, D!Goto, n
  <2>2. new \in Locals /\ new.place = "mapping" /\ new.row = v /\ new.next = n + 1 /\ new.count = author[p].count
    BY <1>0 DEF Locals, v, n
  <2> HIDE DEF new
  <2>3. BuilderKnows(new, map') /\ \A u \in Version : u # v => ~Ahead(new, u)
    BY <1>0, <1>3, <1>9, <2>2 DEF BuilderKnows, Ahead
  <2> QED
    BY <1>7, <2>1, <2>2, <2>3
<1> QED
  BY <1>8, <1>9

LEMMA MapStep == MapInv /\ [Next]_vars => MapInv'
<1> SUFFICES ASSUME MapInv, [Next]_vars PROVE MapInv'
  OBVIOUS
<1>0. /\ D!Idle \in Locals /\ D!Idle.place = "idle"
      /\ states \in [D!Row -> StateName] /\ author \in [Process -> Locals]
  BY DEF D!Idle, Locals, StateName, MapInv, MapTypes
<1>1. states' \in [D!Row -> StateName]
  BY <1>0, StateStep, Followed DEF dissertationVars
<1>2. ASSUME UNCHANGED <<map, whole, author>>
      PROVE  MapInv'
  BY <1>1, <1>2 DEF MapInv, MapTypes, OneBuilder, MapsGrow, BuilderKnows, Ahead
<1>3. ASSUME NEW p \in Process, D!Goto(p, D!Idle), UNCHANGED <<map, whole>>
      PROVE  MapInv'
  BY <1>0, <1>1, <1>3, AuthorMoves DEF D!Goto
<1>4. ASSUME NEW p \in Process, NEW r \in D!Row, D!ReadState(p, r)
      PROVE  MapInv'
  <2> DEFINE new == [D!Idle EXCEPT !.place = "moving", !.row = r, !.seen = states[r]]
  <2>1. new \in Locals /\ new.place = "moving"
    BY <1>0 DEF D!Idle, Locals
  <2>2. author' = [author EXCEPT ![p] = new] /\ UNCHANGED <<map, whole>>
    BY <1>4 DEF D!ReadState, D!Goto
  <2> HIDE DEF new
  <2> QED
    BY <1>1, <2>1, <2>2, AuthorMoves
<1>5. ASSUME NEW p \in Process, NEW v \in Version, NEW n \in Counts, D!OpenMap(p, v, n)
      PROVE  MapInv'
  <2> DEFINE new == [D!Idle EXCEPT !.place = "mapping", !.row = v, !.next = 1, !.count = n]
  <2>0. n \in Nat /\ n > 0 /\ v \in D!Row
    BY RecordsAssumption DEF D!Row
  <2>1. new \in Locals
    BY <1>0, <2>0 DEF D!Idle, Locals
  <2>3. new.row \in Version /\ new.next = 1 /\ new.next <= new.count
    BY <2>0 DEF D!Idle
  <2>2. author' = [author EXCEPT ![p] = new] /\ UNCHANGED <<map, whole>>
    BY <1>5 DEF D!OpenMap, D!Goto
  <2> HIDE DEF new
  <2> QED
    BY <1>1, <2>1, <2>2, <2>3, AuthorMoves
<1>6. ASSUME NEW p \in Process, D!InsertParagraph(p)
      PROVE  MapInv'
  <2>1. CASE author[p].next \in map[author[p].row]
    BY <1>3, <1>6, <2>1 DEF D!InsertParagraph
  <2>2. CASE author[p].next \notin map[author[p].row]
    BY <1>6, <2>2, ParagraphInserted DEF D!InsertParagraph
  <2> QED
    BY <2>1, <2>2
<1>7. ASSUME NEW p \in Process, NEW t \in Topic, D!CaptureTask(p, t)
      PROVE  MapInv'
  <2> DEFINE new == [D!Idle EXCEPT !.place = "linking", !.row = t]
  <2>1. new \in Locals /\ new.place = "linking"
    BY <1>0 DEF D!Idle, Locals, StateName
  <2>2. author' = [author EXCEPT ![p] = new] /\ UNCHANGED <<map, whole>>
    BY <1>7 DEF D!CaptureTask, D!Goto
  <2> HIDE DEF new
  <2> QED
    BY <1>1, <2>1, <2>2, AuthorMoves
<1>8. ASSUME NEW p \in Process, D!LinkTask(p)
      PROVE  MapInv'
  <2> DEFINE new == [author[p] EXCEPT !.place = "auditing"]
  <2>1. new \in Locals /\ new.place = "auditing"
    BY <1>0 DEF Locals
  <2>2. author' = [author EXCEPT ![p] = new] /\ UNCHANGED <<map, whole>>
    BY <1>8 DEF D!LinkTask, D!Goto
  <2> HIDE DEF new
  <2> QED
    BY <1>1, <2>1, <2>2, AuthorMoves
<1>9. ASSUME NEW p \in Process, D!AuditTask(p) \/ D!Break(p) \/ \E to : D!Move(p, to)
      PROVE  MapInv'
  BY <1>3, <1>9 DEF D!AuditTask, D!Break, D!Move
<1>10. ASSUME NEW r, D!Create(r)
      PROVE  MapInv'
  BY <1>2, <1>10 DEF D!Create
<1>11. CASE D!StateNext
  BY <1>4, <1>9, <1>10, <1>11 DEF D!StateNext
<1>12. CASE D!MapNext
  BY <1>5, <1>6, <1>9, <1>10, <1>12 DEF D!MapNext
<1>13. CASE D!TaskNext
  BY <1>7, <1>8, <1>9, <1>13 DEF D!TaskNext
<1> QED
  BY <1>2, <1>11, <1>12, <1>13, Followed DEF dissertationVars

(* A paragraph map has no holes, is one caller's work, and keeps the size  *)
(* its builder was told, for any number of callers, versions and           *)
(* paragraphs.                                                             *)
THEOREM MapsStayWhole == Spec => []MapsAreWhole
<1>1. ASSUME MapInv, NEW v \in Version
      PROVE  /\ \A i \in map[v] : 1..i \subseteq map[v]
             /\ \A n \in whole[v] : map[v] = 1..n
  <2>1. PICK m \in Nat : map[v] = 1..m
    BY <1>1 DEF MapInv, MapsGrow
  <2> QED
    BY <1>1, <2>1 DEF MapInv, MapsGrow
<1>2. MapInv => MapsAreWhole
  BY <1>1 DEF MapsAreWhole, D!MapsAreWhole
<1> QED
  BY <1>2, MapInvInit, MapStep, PTL DEF Spec
-----------------------------------------------------------------------------
(* Start-up. What a host has passed, the tables have; who has the items    *)
(* renamed keeps the others from a second rebuild.                         *)
HostType  == [how : {"service", "local"}, at : 0..8, step : 0..9, old : BOOLEAN, able : SUBSET S!Capability]
TableType == [form : {"absent", "narrow", "wide"}, rows : SUBSET {"before", "since"}]
Pair      == [now : TableType, legacy : TableType]

StartTypes ==
    /\ hosts \in [Process -> HostType]
    /\ columns \subseteq S!Additive
    /\ dispatches \in [form : {"none", "legacy", "orphaned", "current"}, rows : Nat]
    /\ recorded = dispatches.rows
    /\ dispatches.form = "none" => dispatches.rows = 0
    /\ shelf \in [S!Table -> Pair]

HostKnows(h, cols, form) ==
    /\ h.at > 1 => "night_shift" \in cols
    /\ h.at > 4 => "tower" \in cols
    /\ h.at > 5 => "dissertation" \in cols
    /\ h.at > 2 => form = "current"
    /\ h.at \in {2, 3} /\ h.step = 1 /\ ~h.old => form \in {"none", "current"}
    /\ h.step > 1 => h.at = 6
    /\ "drive" \in h.able => "google" \in h.able

HostsKnow == \A p \in Process : HostKnows(hosts[p], columns, dispatches.form)

OneService == \A p \in Process : hosts[p].how = "service" /\ hosts[p].at # 0 => lock = p

StartInv == StartTypes /\ HostsKnow /\ OneService

LEMMA Places ==
    ASSUME StartTypes, NEW p \in Process
    PROVE  /\ S!Place(p) = "off" <=> hosts[p].at = 0
           /\ S!Place(p) = "night_shift" <=> hosts[p].at = 1
           /\ S!Place(p) = "tower" <=> hosts[p].at = 4
           /\ S!Place(p) = "dissertation" <=> hosts[p].at = 5
           /\ S!Place(p) \in S!Migrating <=> hosts[p].at \in {2, 3}
           /\ S!Place(p) = "knowledge" <=> hosts[p].at = 6
           /\ S!Place(p) = "gateway" <=> hosts[p].at = 7
           /\ S!Polls(p) <=> hosts[p].at = 8
<1>1. hosts[p].at \in 0..8
  BY DEF StartTypes, HostType
<1>2. /\ S!Order[1] = "night_shift" /\ S!Order[2] = "approvals" /\ S!Order[3] = "dispatch"
      /\ S!Order[4] = "tower" /\ S!Order[5] = "dissertation" /\ S!Order[6] = "knowledge"
      /\ S!Order[7] = "gateway" /\ S!Order[8] = "polling"
  BY DEF S!Order
<1>3. S!Place(p) = IF hosts[p].at = 0 THEN "off" ELSE S!Order[hosts[p].at]
  BY DEF S!Place
<1>4. hosts[p].at \in {0, 1, 2, 3, 4, 5, 6, 7, 8}
  BY <1>1
<1> QED
  BY <1>2, <1>3, <1>4 DEF S!Polls, S!Migrating

LEMMA StartInvInit == Init => StartInv
<1> SUFFICES ASSUME Init PROVE StartInv
  OBVIOUS
<1>1. S!Init
  BY DEF Init
<1>2. S!Off \in HostType /\ S!Off.at = 0 /\ S!Off.step = 0 /\ S!Off.able = {} /\ S!Off.how = "local"
  BY DEF S!Off, HostType
<1>3. hosts = [p \in Process |-> S!Off]
  BY <1>1 DEF S!Init
<1>4. HostsKnow /\ OneService
  BY <1>2, <1>3 DEF HostsKnow, HostKnows, OneService
<1>5. columns \subseteq S!Additive
  BY <1>1 DEF S!Init
<1>6. /\ dispatches \in [form : {"none", "legacy", "orphaned", "current"}, rows : Nat]
      /\ recorded = dispatches.rows
      /\ dispatches.form = "none" => dispatches.rows = 0
  BY <1>1 DEF S!Init, S!Release
<1>7. shelf \in [S!Table -> Pair]
  <2>1. PICK release \in S!Release :
          shelf = [t \in S!Table |->
            [now |-> IF t = "sources"
                     THEN CASE release = "fresh"  -> S!Nobody
                            [] release = "narrow" -> [form |-> "narrow", rows |-> {"before"}]
                            [] OTHER              -> [form |-> "wide", rows |-> {"before"}]
                     ELSE IF release = "fresh" THEN S!Nobody ELSE [form |-> "wide", rows |-> {"before"}],
             legacy |-> S!Nobody]]
    BY <1>1 DEF S!Init
  <2>2. S!Nobody \in TableType /\ \A f \in {"narrow", "wide"} : [form |-> f, rows |-> {"before"}] \in TableType
    BY DEF S!Nobody, TableType
  <2> QED
    BY <2>1, <2>2 DEF S!Release, Pair
<1> QED
  BY <1>2, <1>3, <1>4, <1>5, <1>6, <1>7 DEF StartInv, StartTypes

(* A step of one host, whose knowledge is true after it, while columns and *)
(* the form only move forward.                                             *)
LEMMA HostMoves ==
    \A p \in Process, new \in HostType :
        /\ StartInv /\ StartTypes'
        /\ hosts' = [hosts EXCEPT ![p] = new]
        /\ columns \subseteq columns'
        /\ dispatches.form = "current" => dispatches'.form = "current"
        /\ dispatches.form = "none" => dispatches'.form \in {"none", "current"}
        /\ HostKnows(new, columns', dispatches'.form)
        /\ lock' = lock
        /\ new.how = "service" /\ new.at # 0 => hosts[p].how = "service" /\ hosts[p].at # 0
        => StartInv'
<1> SUFFICES ASSUME NEW p \in Process, NEW new \in HostType, StartInv, StartTypes',
                    hosts' = [hosts EXCEPT ![p] = new],
                    columns \subseteq columns',
                    dispatches.form = "current" => dispatches'.form = "current",
                    dispatches.form = "none" => dispatches'.form \in {"none", "current"},
                    HostKnows(new, columns', dispatches'.form),
                    lock' = lock,
                    new.how = "service" /\ new.at # 0 => hosts[p].how = "service" /\ hosts[p].at # 0
             PROVE  StartInv'
  OBVIOUS
<1>1. \A q \in Process : hosts'[q] = IF q = p THEN new ELSE hosts[q]
  BY DEF StartInv, StartTypes
<1>2. HostsKnow'
  <2> SUFFICES ASSUME NEW q \in Process
               PROVE  HostKnows(hosts'[q], columns', dispatches'.form)
    BY DEF HostsKnow
  <2>1. HostKnows(hosts[q], columns', dispatches'.form)
    BY DEF StartInv, HostsKnow, HostKnows
  <2> QED
    BY <1>1, <2>1
<1>3. OneService'
  BY <1>1 DEF StartInv, OneService
<1> QED
  BY <1>2, <1>3 DEF StartInv
LEMMA HostUpdates ==
    \A h \in HostType :
        /\ \A a \in 0..8 : [h EXCEPT !.at = a] \in HostType
        /\ \A n \in 0..9 : [h EXCEPT !.step = n] \in HostType
        /\ \A b \in BOOLEAN : [h EXCEPT !.old = b] \in HostType
        /\ \A how \in {"service", "local"} : [h EXCEPT !.how = how] \in HostType
        /\ \A c \in SUBSET S!Capability : [h EXCEPT !.able = c] \in HostType
<1> TAKE h \in HostType
<1>1. \A a \in 0..8 : [h EXCEPT !.at = a] \in HostType
  BY DEF HostType
<1>2. \A n \in 0..9 : [h EXCEPT !.step = n] \in HostType
  BY DEF HostType
<1>3. \A b \in BOOLEAN : [h EXCEPT !.old = b] \in HostType
  BY DEF HostType
<1>4. \A how \in {"service", "local"} : [h EXCEPT !.how = how] \in HostType
  BY DEF HostType
<1>5. \A c \in SUBSET S!Capability : [h EXCEPT !.able = c] \in HostType
  BY DEF HostType
<1> QED
  BY <1>1, <1>2, <1>3, <1>4, <1>5

(* The statements of the rebuild, and what they make of a table.           *)
Verb == {"rename", "create", "copy", "drop"}

LEMMA Statements ==
    /\ S!Widening[1] = <<"rename", "items">> /\ S!Widening[2] = <<"rename", "sources">>
    /\ S!Widening[3] = <<"create", "sources">> /\ S!Widening[4] = <<"create", "items">>
    /\ S!Widening[5] = <<"copy", "sources">> /\ S!Widening[6] = <<"copy", "items">>
    /\ S!Widening[7] = <<"drop", "items">> /\ S!Widening[8] = <<"drop", "sources">>
    /\ Len(S!Widening) = 8
<1>1. Len(S!Widening) = 8
  BY DEF S!Widening
<1>2. /\ S!Widening[1] = <<"rename", "items">> /\ S!Widening[2] = <<"rename", "sources">>
      /\ S!Widening[3] = <<"create", "sources">> /\ S!Widening[4] = <<"create", "items">>
  BY DEF S!Widening
<1>3. /\ S!Widening[5] = <<"copy", "sources">> /\ S!Widening[6] = <<"copy", "items">>
      /\ S!Widening[7] = <<"drop", "items">> /\ S!Widening[8] = <<"drop", "sources">>
  BY DEF S!Widening
<1> QED
  BY <1>1, <1>2, <1>3

LEMMA RunTyped == \A verb \in Verb, pair \in Pair : S!Run(verb, pair) \in Pair
<1> SUFFICES ASSUME NEW verb \in Verb, NEW pair \in Pair PROVE S!Run(verb, pair) \in Pair
  OBVIOUS
<1>1. S!Nobody \in TableType /\ S!Empty \in TableType /\ pair.now \in TableType /\ pair.legacy \in TableType
  BY DEF S!Nobody, S!Empty, TableType, Pair
<1>2. CASE verb = "rename"
  BY <1>1, <1>2 DEF S!Run, Pair
<1>3. CASE verb = "create"
  BY <1>1, <1>3 DEF S!Run, Pair
<1>4. CASE verb = "copy"
  <2> DEFINE both == pair.now.rows \cup pair.legacy.rows
             now  == [pair.now EXCEPT !.rows = both]
  <2>1. now \in TableType
    BY <1>1 DEF TableType
  <2>2. S!Run(verb, pair) = [pair EXCEPT !.now = now]
    BY <1>4 DEF S!Run
  <2> HIDE DEF now
  <2> QED
    BY <2>1, <2>2 DEF Pair
<1>5. CASE verb = "drop"
  BY <1>1, <1>5 DEF S!Run, Pair
<1> QED
  BY <1>2, <1>3, <1>4, <1>5 DEF Verb

LEMMA ShelfTyped ==
    ASSUME StartTypes, NEW p \in Process,
           S!CreateKnowledge(p) \/ S!Widen(p) \/ (\E t \in S!Table : S!Shelve(p, t)) \/ UNCHANGED shelf
    PROVE  shelf' \in [S!Table -> Pair]
<1>0. shelf \in [S!Table -> Pair] /\ hosts[p] \in HostType
  BY DEF StartTypes
<1>1. CASE S!CreateKnowledge(p)
  <2>1. S!Empty \in TableType
    BY DEF S!Empty, TableType
  <2>2. \A t \in S!Table : [shelf[t] EXCEPT !.now = IF @ = S!Nobody THEN S!Empty ELSE @] \in Pair
    BY <1>0, <2>1 DEF Pair
  <2> QED
    BY <1>1, <2>2 DEF S!CreateKnowledge
<1>2. CASE S!Widen(p)
  <2> DEFINE i == hosts[p].step - 1
             verb == S!Widening[i][1]
             t == S!Widening[i][2]
  <2>1. hosts[p].step \in 0..9 /\ hosts[p].step > 1
    BY <1>0, <1>2 DEF HostType, S!Widen
  <2>2. i \in {1, 2, 3, 4, 5, 6, 7, 8}
    BY <2>1
  <2>3. shelf' = [shelf EXCEPT ![t] = S!Run(verb, @)]
    BY <1>2 DEF S!Widen
  <2> HIDE DEF i
  <2>4. verb \in Verb /\ t \in S!Table
    BY <2>2, Statements DEF Verb, S!Table
  <2> HIDE DEF verb, t
  <2> QED
    BY <1>0, <2>3, <2>4, RunTyped
<1>3. ASSUME NEW t \in S!Table, S!Shelve(p, t)
      PROVE  shelf' \in [S!Table -> Pair]
  <2> DEFINE more == shelf[t].now.rows \cup {"since"}
             now  == [shelf[t].now EXCEPT !.rows = more]
             pair == [shelf[t] EXCEPT !.now = now]
  <2>1. shelf' = [shelf EXCEPT ![t] = pair]
    BY <1>3 DEF S!Shelve
  <2>2. shelf[t].now \in TableType
    BY <1>0 DEF Pair
  <2>3. now \in TableType
    BY <2>2 DEF TableType
  <2> HIDE DEF now
  <2>4. pair \in Pair
    BY <1>0, <2>3 DEF Pair
  <2> HIDE DEF pair
  <2> QED
    BY <1>0, <2>1, <2>4
<1> QED
  BY <1>0, <1>1, <1>2, <1>3

LEMMA StartStep ==
    ASSUME StartInv, S!Next
    PROVE  StartInv'
<1>0. /\ hosts \in [Process -> HostType]
      /\ S!Off \in HostType /\ S!Off.at = 0 /\ S!Off.step = 0 /\ S!Off.able = {} /\ S!Off.how = "local"
  BY DEF S!Off, HostType, StartInv, StartTypes
<1>1. ASSUME NEW p \in Process, NEW how \in {"service", "local"}, S!Launch(p, how)
      PROVE  StartInv'
  <2> DEFINE new == [S!Off EXCEPT !.how = how, !.at = 1]
  <2>1. new \in HostType /\ new.how = how /\ new.at = 1 /\ new.step = 0 /\ new.able = {}
    <3>1. new \in HostType
      <4> DEFINE mid == [S!Off EXCEPT !.how = how]
      <4>1. new = [mid EXCEPT !.at = 1]
        OBVIOUS
      <4>2. mid \in HostType
        BY <1>0, HostUpdates
      <4> HIDE DEF mid, new
      <4>3. 1 \in 0..8
        OBVIOUS
      <4>4. [mid EXCEPT !.at = 1] \in HostType
        BY <4>2, <4>3, HostUpdates
      <4> QED
        BY <4>1, <4>4
    <3>2. new.how = how /\ new.at = 1 /\ new.step = 0 /\ new.able = {}
      BY DEF S!Off
    <3> QED
      BY <3>1, <3>2
  <2>2. /\ hosts' = [hosts EXCEPT ![p] = new]
        /\ UNCHANGED <<columns, dispatches, recorded, shelf>>
        /\ how = "service" => lock = None
        /\ lock' = IF how = "service" THEN p ELSE lock
    BY <1>1 DEF S!Launch, S!AcquireLock, S!Goto, S!SameTables
  <2> HIDE DEF new
  <2>3. \A q \in Process : hosts'[q] = IF q = p THEN new ELSE hosts[q]
    BY <1>0, <2>2
  <2>4. StartTypes'
    BY <1>0, <2>1, <2>2 DEF StartInv, StartTypes
  <2>5. HostsKnow'
    BY <2>1, <2>2, <2>3 DEF StartInv, HostsKnow, HostKnows
  <2>6. OneService'
    <3>1. CASE how = "service"
      <4>1. \A q \in Process : ~(hosts[q].how = "service" /\ hosts[q].at # 0)
        BY <2>2, <3>1, RecordsAssumption DEF StartInv, OneService
      <4> QED
        BY <2>2, <2>3, <3>1, <4>1 DEF OneService
    <3>2. CASE how = "local"
      BY <2>1, <2>2, <2>3, <3>2 DEF StartInv, OneService
    <3> QED
      BY <3>1, <3>2
  <2> QED
    BY <2>4, <2>5, <2>6 DEF StartInv
<1>2. ASSUME NEW p \in Process, S!Die(p)
      PROVE  StartInv'
  <2>1. /\ hosts' = [hosts EXCEPT ![p] = S!Off]
        /\ UNCHANGED <<columns, dispatches, recorded, shelf>>
        /\ lock' = IF lock = p THEN None ELSE lock
    BY <1>2 DEF S!Die, S!Goto, S!SameTables
  <2>2. \A q \in Process : hosts'[q] = IF q = p THEN S!Off ELSE hosts[q]
    BY <1>0, <2>1
  <2>3. StartTypes'
    BY <1>0, <2>1 DEF StartInv, StartTypes
  <2>4. HostsKnow'
    BY <1>0, <2>1, <2>2 DEF StartInv, HostsKnow, HostKnows
  <2>5. OneService'
    BY <1>0, <2>1, <2>2 DEF StartInv, OneService
  <2> QED
    BY <2>3, <2>4, <2>5 DEF StartInv
<1>3. ASSUME NEW p \in Process, NEW old \in BOOLEAN, S!Read(p, old), lock' = lock, S!SameTables,
             hosts[p].at # 6,
             hosts[p].at \in {2, 3} /\ ~old => dispatches.form \in {"none", "current"}
      PROVE  StartInv'
  <2> DEFINE new == [hosts[p] EXCEPT !.step = 1, !.old = old]
  <2>1. hosts[p] \in HostType
    BY <1>0
  <2>2. /\ new \in HostType /\ new.how = hosts[p].how /\ new.at = hosts[p].at
        /\ new.step = 1 /\ new.old = old /\ new.able = hosts[p].able
    <3>1. new \in HostType
      <4> DEFINE mid == [hosts[p] EXCEPT !.step = 1]
      <4>1. new = [mid EXCEPT !.old = old]
        OBVIOUS
      <4>2. 1 \in 0..9
        OBVIOUS
      <4>3. mid \in HostType
        BY <2>1, <4>2, HostUpdates
      <4> HIDE DEF mid, new
      <4>4. [mid EXCEPT !.old = old] \in HostType
        BY <4>3, HostUpdates
      <4> QED
        BY <4>1, <4>4
    <3>2. new.how = hosts[p].how /\ new.at = hosts[p].at /\ new.able = hosts[p].able
      OBVIOUS
    <3>3. new.step = 1 /\ new.old = old
      BY <2>1 DEF HostType
    <3> QED
      BY <3>1, <3>2, <3>3
  <2>3. hosts' = [hosts EXCEPT ![p] = new] /\ UNCHANGED <<columns, dispatches, recorded, shelf>>
    BY <1>3 DEF S!Read, S!Goto, S!SameTables
  <2> HIDE DEF new
  <2>4. StartTypes'
    BY <1>0, <2>2, <2>3 DEF StartInv, StartTypes
  <2>5. HostKnows(new, columns', dispatches'.form)
    BY <1>3, <2>2, <2>3 DEF StartInv, HostsKnow, HostKnows
  <2> QED
    BY <1>3, <2>2, <2>3, <2>4, <2>5, HostMoves
<1>4. ASSUME NEW p \in Process, S!Opened(p), lock' = lock,
             hosts[p].at \in 1..6, columns \subseteq columns', columns' \subseteq S!Additive,
             hosts[p].at = 1 => "night_shift" \in columns',
             hosts[p].at = 4 => "tower" \in columns',
             hosts[p].at = 5 => "dissertation" \in columns',
             hosts[p].at \in {2, 3} => dispatches'.form = "current",
             dispatches.form \in {"none", "current"} => dispatches'.form \in {dispatches.form, "current"},
             dispatches' \in [form : {"none", "legacy", "orphaned", "current"}, rows : Nat],
             recorded' = dispatches'.rows,
             dispatches'.form = "none" => dispatches'.rows = 0,
             shelf' \in [S!Table -> Pair]
      PROVE  StartInv'
  <2> DEFINE new == [hosts[p] EXCEPT !.at = @ + 1, !.step = 0, !.old = FALSE]
  <2>1. hosts[p] \in HostType
    BY <1>0
  <2> DEFINE next == hosts[p].at + 1
  <2>2. next \in 0..8
    BY <1>4
  <2>4. hosts' = [hosts EXCEPT ![p] = new]
    BY <1>4 DEF S!Opened, S!Goto
  <2>8. new = [hosts[p] EXCEPT !.at = next, !.step = 0, !.old = FALSE]
    OBVIOUS
  <2> HIDE DEF new, next
  <2>9. new \in HostType
    <3> DEFINE one == [hosts[p] EXCEPT !.at = next]
               two == [one EXCEPT !.step = 0]
    <3>1. new = [two EXCEPT !.old = FALSE]
      BY <2>8
    <3>2. one \in HostType
      BY <2>1, <2>2, HostUpdates
    <3> HIDE DEF one
    <3>3. 0 \in 0..9
      OBVIOUS
    <3>4. two \in HostType
      BY <3>2, <3>3, HostUpdates
    <3> HIDE DEF two
    <3>5. [two EXCEPT !.old = FALSE] \in HostType
      BY <3>4, HostUpdates
    <3> QED
      BY <3>1, <3>5
  <2>10. new.how = hosts[p].how /\ new.able = hosts[p].able
    BY <2>8
  <2>11. new.at = next /\ new.step = 0
    BY <2>1, <2>8 DEF HostType
  <2>3. /\ new \in HostType /\ new.how = hosts[p].how /\ new.at = hosts[p].at + 1
        /\ new.step = 0 /\ new.able = hosts[p].able
    BY <2>9, <2>10, <2>11 DEF next
  <2>5. StartTypes'
    BY <1>0, <1>4, <2>3, <2>4 DEF StartInv, StartTypes
  <2>6. HostKnows(hosts[p], columns, dispatches.form)
    BY DEF StartInv, HostsKnow
  <2>7. HostKnows(new, columns', dispatches'.form)
    BY <1>4, <2>3, <2>6 DEF HostKnows
  <2>12. dispatches.form = "current" => dispatches'.form = "current"
    BY <1>4
  <2>13. dispatches.form = "none" => dispatches'.form \in {"none", "current"}
    BY <1>4
  <2>14. hosts[p].at # 0
    BY <1>4
  <2> QED
    BY <1>4, <2>3, <2>4, <2>5, <2>7, <2>12, <2>13, <2>14, HostMoves
<1>5. ASSUME NEW p \in Process, NEW n \in 0..9, S!Goto(p, [hosts[p] EXCEPT !.step = n]),
             hosts[p].at = 6, lock' = lock, UNCHANGED <<columns, dispatches, recorded>>,
             shelf' \in [S!Table -> Pair]
      PROVE  StartInv'
  <2> DEFINE new == [hosts[p] EXCEPT !.step = n]
  <2>1. hosts[p] \in HostType
    BY <1>0
  <2>2. new \in HostType
    BY <2>1, HostUpdates
  <2>3. new.how = hosts[p].how /\ new.at = 6 /\ new.able = hosts[p].able
    BY <1>5
  <2>4. hosts' = [hosts EXCEPT ![p] = new]
    BY <1>5 DEF S!Goto
  <2> HIDE DEF new
  <2>5. StartTypes'
    BY <1>0, <1>5, <2>2, <2>4 DEF StartInv, StartTypes
  <2>6. HostKnows(new, columns', dispatches'.form)
    BY <1>5, <2>3 DEF StartInv, HostsKnow, HostKnows
  <2> QED
    BY <1>5, <2>2, <2>3, <2>4, <2>5, <2>6, HostMoves
<1>6. ASSUME NEW p \in Process, S!ReadColumns(p)
      PROVE  StartInv'
  <2>1. hosts[p].at \notin {2, 3, 6}
    BY <1>6, Places DEF S!ReadColumns, S!Additive, StartInv
  <2> QED
    BY <1>3, <1>6, <2>1 DEF S!ReadColumns
<1>7. ASSUME NEW p \in Process, S!AddColumns(p)
      PROVE  StartInv'
  <2>1. hosts[p].at \in {1, 4, 5}
    BY <1>7, Places DEF S!AddColumns, S!Additive, StartInv
  <2>2. columns' = columns \cup {S!Place(p)} /\ S!Place(p) \in S!Additive
    BY <1>7 DEF S!AddColumns
  <2>3. /\ hosts[p].at = 1 => "night_shift" \in columns'
        /\ hosts[p].at = 4 => "tower" \in columns'
        /\ hosts[p].at = 5 => "dissertation" \in columns'
    BY <2>2, Places DEF StartInv
  <2>4. /\ S!Opened(p) /\ lock' = lock /\ UNCHANGED <<dispatches, recorded, shelf>>
        /\ columns \subseteq columns' /\ columns' \subseteq S!Additive
    BY <1>7, <2>2 DEF S!AddColumns, StartInv, StartTypes
  <2>5. hosts[p].at \in 1..6 /\ hosts[p].at \notin {2, 3}
    BY <2>1
  <2>6. /\ dispatches' \in [form : {"none", "legacy", "orphaned", "current"}, rows : Nat]
        /\ recorded' = dispatches'.rows
        /\ dispatches'.form = "none" => dispatches'.rows = 0
        /\ dispatches'.form = dispatches.form
        /\ shelf' \in [S!Table -> Pair]
    BY <2>4 DEF StartInv, StartTypes
  <2>7. dispatches.form \in {"none", "current"} => dispatches'.form \in {dispatches.form, "current"}
    BY <2>6
  <2>8. hosts[p].at \in {2, 3} => dispatches'.form = "current"
    BY <2>5
  <2>9. S!Opened(p) /\ lock' = lock /\ columns \subseteq columns' /\ columns' \subseteq S!Additive
    BY <2>4
  <2> QED
    BY <1>4, <2>3, <2>5, <2>6, <2>7, <2>8, <2>9
<1>8. ASSUME NEW p \in Process, S!ReadForm(p)
      PROVE  StartInv'
  <2>1. hosts[p].at \in {2, 3}
    BY <1>8, Places DEF S!ReadForm, StartInv
  <2>2. dispatches.form # "legacy" => dispatches.form \in {"none", "current"}
    BY <1>8 DEF S!ReadForm, StartInv, StartTypes
  <2> DEFINE old == dispatches.form = "legacy"
  <2>3. old \in BOOLEAN /\ S!Read(p, old) /\ lock' = lock /\ S!SameTables
    BY <1>8 DEF S!ReadForm
  <2>4. hosts[p].at # 6 /\ (~old => dispatches.form \in {"none", "current"})
    BY <2>1, <2>2
  <2> HIDE DEF old
  <2> QED
    BY <1>3, <2>3, <2>4
<1>9. ASSUME NEW p \in Process, S!ApplySchema(p)
      PROVE  StartInv'
  <2> DEFINE form == IF hosts[p].old \/ dispatches.form = "none" THEN "current" ELSE dispatches.form
  <2>1. hosts[p].at \in {2, 3} /\ hosts[p].step = 1
    BY <1>9, Places DEF S!ApplySchema, StartInv
  <2>2. dispatches' = [dispatches EXCEPT !.form = form]
    BY <1>9 DEF S!ApplySchema, S!Rebuilt
  <2>3. HostKnows(hosts[p], columns, dispatches.form)
    BY DEF StartInv, HostsKnow
  <2>4. form = "current"
    BY <2>1, <2>3 DEF HostKnows
  <2> HIDE DEF form
  <2>5. dispatches'.form = "current" /\ dispatches'.rows = dispatches.rows
        /\ dispatches' \in [form : {"none", "legacy", "orphaned", "current"}, rows : Nat]
    BY <2>2, <2>4 DEF StartInv, StartTypes
  <2>6. S!Opened(p) /\ UNCHANGED <<lock, columns, recorded, shelf>>
    BY <1>9 DEF S!ApplySchema
  <2>7. hosts[p].at \in 1..6 /\ hosts[p].at \notin {1, 4, 5}
    BY <2>1
  <2>8. recorded' = dispatches'.rows /\ columns' \subseteq S!Additive /\ columns \subseteq columns'
        /\ shelf' \in [S!Table -> Pair] /\ lock' = lock
    BY <2>5, <2>6 DEF StartInv, StartTypes
  <2>9. dispatches'.form # "none" /\ dispatches'.form \in {dispatches.form, "current"}
    BY <2>5
  <2> QED
    BY <1>4, <2>5, <2>6, <2>7, <2>8, <2>9
<1>10. ASSUME NEW p \in Process, S!CreateKnowledge(p)
       PROVE  StartInv'
  <2>1. hosts[p].at = 6 /\ 1 \in 0..9
    BY <1>10, Places DEF S!CreateKnowledge, StartInv
  <2>2. shelf' \in [S!Table -> Pair]
    BY <1>10, ShelfTyped DEF StartInv
  <2> QED
    BY <1>5, <1>10, <2>1, <2>2 DEF S!CreateKnowledge
<1>11. ASSUME NEW p \in Process, S!Opened(p), hosts[p].at = 6, shelf' \in [S!Table -> Pair],
              UNCHANGED <<lock, columns, dispatches, recorded>>
       PROVE  StartInv'
  <2>1. hosts[p].at \in 1..6 /\ hosts[p].at \notin {1, 2, 3, 4, 5}
    BY <1>11
  <2> QED
    BY <1>4, <1>11, <2>1 DEF StartInv, StartTypes
<1>12. ASSUME NEW p \in Process, S!ReadSources(p)
       PROVE  StartInv'
  <2>1. hosts[p].at = 6 /\ 2 \in 0..9
    BY <1>12, Places DEF S!ReadSources, StartInv
  <2>2. UNCHANGED <<lock, columns, dispatches, recorded, shelf>> /\ shelf' \in [S!Table -> Pair]
    BY <1>12 DEF S!ReadSources, S!SameTables, StartInv, StartTypes
  <2>3. CASE S!Goto(p, [hosts[p] EXCEPT !.step = 2])
    BY <1>5, <2>1, <2>2, <2>3
  <2>4. CASE S!Opened(p)
    BY <1>11, <2>1, <2>2, <2>4
  <2> QED
    BY <1>12, <2>3, <2>4 DEF S!ReadSources
<1>13. ASSUME NEW p \in Process, S!Widen(p)
       PROVE  StartInv'
  <2>1. hosts[p].at = 6 /\ UNCHANGED <<lock, columns, dispatches, recorded>>
    BY <1>13, Places DEF S!Widen, StartInv
  <2>2. shelf' \in [S!Table -> Pair]
    BY <1>13, ShelfTyped DEF StartInv
  <2>3. CASE S!Opened(p)
    BY <1>11, <2>1, <2>2, <2>3
  <2>4. CASE ~S!Opened(p)
    <3> DEFINE n == hosts[p].step + 1
    <3>1. hosts[p].step - 1 # 8 /\ S!Goto(p, [hosts[p] EXCEPT !.step = n]) /\ hosts[p].step > 1
      BY <1>13, <2>4, Statements DEF S!Widen
    <3>2. n \in 0..9
      BY <1>0, <3>1 DEF HostType
    <3> HIDE DEF n
    <3> QED
      BY <1>5, <2>1, <2>2, <3>1, <3>2
  <2> QED
    BY <2>3, <2>4
<1>14. ASSUME NEW p \in Process, NEW env \in S!Environment, NEW failed \in SUBSET {"gateway", "drive"},
              S!OpenGateway(p, env, failed)
       PROVE  StartInv'
  <2> DEFINE able == S!Configured(env) \ failed
             mid == [hosts[p] EXCEPT !.at = 8]
             new == [mid EXCEPT !.able = able]
  <2>1. hosts[p] \in HostType /\ hosts[p].at = 7 /\ 7 + 1 = 8 /\ 8 \in 0..8
    BY <1>0, <1>14, Places DEF S!OpenGateway, StartInv
  <2>2. able \subseteq S!Capability /\ ("drive" \in able => "google" \in able)
    BY DEF S!Configured, S!Capability
  <2>3. /\ hosts' = [hosts EXCEPT ![p] = [hosts[p] EXCEPT !.at = @ + 1, !.able = able]]
        /\ UNCHANGED <<lock, columns, dispatches, recorded, shelf>>
    BY <1>14 DEF S!OpenGateway, S!Goto, S!SameTables
  <2> HIDE DEF able
  <2>4. mid \in HostType
    BY <2>1, HostUpdates
  <2>5. [hosts[p] EXCEPT !.at = @ + 1, !.able = able] = new
    BY <2>1
  <2>6. new.how = hosts[p].how /\ new.at = 8 /\ new.able = able /\ new.step = hosts[p].step
    BY <2>1 DEF HostType
  <2>7. new \in HostType
    <3> HIDE DEF mid
    <3> QED
      BY <2>2, <2>4, HostUpdates
  <2> HIDE DEF new, mid
  <2>8. HostKnows(hosts[p], columns, dispatches.form)
    BY DEF StartInv, HostsKnow
  <2>9. hosts[p].step \in 0..9
    BY <2>1 DEF HostType
  <2>10. HostKnows(new, columns, dispatches.form)
    BY <2>1, <2>2, <2>6, <2>8, <2>9 DEF HostKnows
  <2>11. StartTypes'
    BY <1>0, <2>3, <2>5, <2>7 DEF StartInv, StartTypes
  <2>12. hosts' = [hosts EXCEPT ![p] = new]
    BY <2>3, <2>5
  <2>13. hosts[p].at # 0 /\ columns \subseteq columns' /\ dispatches' = dispatches /\ lock' = lock
    BY <2>1, <2>3
  <2>14. HostKnows(new, columns', dispatches'.form)
    BY <2>3, <2>10
  <2> QED
    BY <2>6, <2>7, <2>11, <2>12, <2>13, <2>14, HostMoves
<1>15. ASSUME NEW p \in Process, S!RecordDispatch(p)
       PROVE  StartInv'
  <2>1. hosts[p].at = 8 /\ UNCHANGED <<hosts, lock, columns, shelf>>
    BY <1>15, Places DEF S!RecordDispatch, StartInv
  <2>2. dispatches.form = "current"
    BY <2>1 DEF StartInv, HostsKnow, HostKnows
  <2>3. dispatches' = [dispatches EXCEPT !.rows = @ + 1] /\ recorded' = recorded + 1
    BY <1>15 DEF S!RecordDispatch
  <2>4. dispatches'.form = "current" /\ dispatches'.rows = recorded'
        /\ dispatches' \in [form : {"none", "legacy", "orphaned", "current"}, rows : Nat]
    BY <2>2, <2>3 DEF StartInv, StartTypes
  <2>5. StartTypes'
    BY <2>1, <2>4 DEF StartInv, StartTypes
  <2>6. HostsKnow' /\ OneService'
    BY <2>1, <2>2, <2>4 DEF StartInv, HostsKnow, OneService
  <2> QED
    BY <2>5, <2>6 DEF StartInv
<1>16. ASSUME NEW p \in Process, NEW t \in S!Table, S!Shelve(p, t)
       PROVE  StartInv'
  <2>1. shelf' \in [S!Table -> Pair]
    BY <1>16, ShelfTyped DEF StartInv
  <2> QED
    BY <1>16, <2>1 DEF S!Shelve, StartInv, StartTypes, HostsKnow, OneService
<1> QED
  BY <1>1, <1>2, <1>6, <1>7, <1>8, <1>9, <1>10, <1>12, <1>13, <1>14, <1>15, <1>16 DEF S!Next
(* The rebuild of knowledge. Only who has the items renamed gets on, until *)
(* it drops them, and only who has the sources renamed until it is done.   *)
Busy(h)    == h.step \in 3..8
Holding(h) == h.step \in 4..9
Covered(pair) == pair.legacy.rows \subseteq pair.now.rows

OneRebuild ==
    \A p \in Process :
        /\ Busy(hosts[p]) => shelf["items"].legacy # S!Nobody
        /\ Holding(hosts[p]) => shelf["sources"].legacy # S!Nobody
        /\ hosts[p].step = 8 => Covered(shelf["items"])
        /\ hosts[p].step \in 7..9 => Covered(shelf["sources"])
        /\ \A q \in Process : /\ Busy(hosts[p]) /\ Busy(hosts[q]) => p = q
                              /\ Holding(hosts[p]) /\ Holding(hosts[q]) => p = q

NothingLost == \A t \in S!Table : shelved[t] \subseteq shelf[t].now.rows \cup shelf[t].legacy.rows

ShelfInv == OneRebuild /\ NothingLost /\ shelved \in [S!Table -> SUBSET {"before", "since"}]

LEMMA ShelfInvInit == Init => ShelfInv
<1> SUFFICES ASSUME Init PROVE ShelfInv
  OBVIOUS
<1>1. S!Init
  BY DEF Init
<1>2. hosts = [p \in Process |-> S!Off] /\ S!Off.step = 0
  BY <1>1 DEF S!Init, S!Off
<1>3. OneRebuild
  BY <1>2 DEF OneRebuild, Busy, Holding
<1>4. NothingLost /\ shelved \in [S!Table -> SUBSET {"before", "since"}]
  <2>1. PICK release \in S!Release :
          /\ shelf = [t \in S!Table |->
               [now |-> IF t = "sources"
                        THEN CASE release = "fresh"  -> S!Nobody
                               [] release = "narrow" -> [form |-> "narrow", rows |-> {"before"}]
                               [] OTHER              -> [form |-> "wide", rows |-> {"before"}]
                        ELSE IF release = "fresh" THEN S!Nobody ELSE [form |-> "wide", rows |-> {"before"}],
                legacy |-> S!Nobody]]
          /\ shelved = [t \in S!Table |-> IF release = "fresh" THEN {} ELSE {"before"}]
    BY <1>1 DEF S!Init
  <2>2. CASE release = "fresh"
    BY <2>1, <2>2 DEF NothingLost
  <2>3. CASE release # "fresh"
    <3>1. \A t \in S!Table : shelf[t].now.rows = {"before"}
      BY <2>1, <2>3 DEF S!Table
    <3> QED
      BY <2>1, <2>3, <3>1 DEF NothingLost
  <2> QED
    BY <2>2, <2>3
<1> QED
  BY <1>3, <1>4 DEF ShelfInv

(* A host that is not in the rebuild, or leaves it, and tables that only   *)
(* gain rows or come to be.                                                *)
LEMMA ShelfKept ==
    \A p \in Process, new \in HostType :
        /\ StartTypes /\ ShelfInv
        /\ hosts' = [hosts EXCEPT ![p] = new] /\ new.step < 3
        /\ \A t \in S!Table :
              /\ shelf'[t].legacy = shelf[t].legacy
              /\ shelf[t].now.rows \subseteq shelf'[t].now.rows
              /\ shelved'[t] \subseteq shelved[t] \cup shelf'[t].now.rows
        /\ shelved' \in [S!Table -> SUBSET {"before", "since"}]
        => ShelfInv'
<1> SUFFICES ASSUME NEW p \in Process, NEW new \in HostType, StartTypes, ShelfInv,
                    hosts' = [hosts EXCEPT ![p] = new], new.step < 3,
                    \A t \in S!Table :
                        /\ shelf'[t].legacy = shelf[t].legacy
                        /\ shelf[t].now.rows \subseteq shelf'[t].now.rows
                        /\ shelved'[t] \subseteq shelved[t] \cup shelf'[t].now.rows,
                    shelved' \in [S!Table -> SUBSET {"before", "since"}]
             PROVE  ShelfInv'
  OBVIOUS
<1>1. \A q \in Process : hosts'[q] = IF q = p THEN new ELSE hosts[q]
  BY DEF StartTypes
<1>2. new.step \notin 3..8 /\ new.step \notin 4..9 /\ new.step # 8 /\ new.step \notin 7..9
  BY DEF HostType
<1>3. \A t \in S!Table : Covered(shelf[t]) => Covered(shelf'[t])
  BY DEF Covered
<1>4. OneRebuild'
  <2> SUFFICES ASSUME NEW q \in Process
               PROVE  /\ Busy(hosts'[q]) => shelf'["items"].legacy # S!Nobody
                      /\ Holding(hosts'[q]) => shelf'["sources"].legacy # S!Nobody
                      /\ hosts'[q].step = 8 => Covered(shelf'["items"])
                      /\ hosts'[q].step \in 7..9 => Covered(shelf'["sources"])
                      /\ \A o \in Process : /\ Busy(hosts'[q]) /\ Busy(hosts'[o]) => q = o
                                            /\ Holding(hosts'[q]) /\ Holding(hosts'[o]) => q = o
    BY DEF OneRebuild, Busy, Holding, Covered
  <2>1. "items" \in S!Table /\ "sources" \in S!Table
    BY DEF S!Table
  <2>2. CASE q = p
    BY <1>1, <1>2, <2>2 DEF Busy, Holding
  <2>3. CASE q # p
    <3>1. hosts'[q] = hosts[q] /\ \A o \in Process : o # p => hosts'[o] = hosts[o]
      BY <1>1, <2>3
    <3>2. ~Busy(hosts'[p]) /\ ~Holding(hosts'[p])
      BY <1>1, <1>2 DEF Busy, Holding
    <3> QED
      BY <1>3, <2>1, <3>1, <3>2 DEF ShelfInv, OneRebuild
  <2> QED
    BY <2>2, <2>3
<1>5. NothingLost'
  BY DEF ShelfInv, NothingLost
<1> QED
  BY <1>4, <1>5 DEF ShelfInv
(* One statement of the rebuild.                                           *)
LEMMA ShelfRebuilt ==
    ASSUME StartInv, ShelfInv, NEW p \in Process, S!Widen(p)
    PROVE  ShelfInv'
<1> DEFINE i == hosts[p].step - 1
           new == hosts'[p].step
<1>0. /\ hosts[p] \in HostType /\ hosts[p].step \in 2..9 /\ i \in {1, 2, 3, 4, 5, 6, 7, 8}
      /\ hosts \in [Process -> HostType] /\ shelf \in [S!Table -> Pair]
      /\ shelved' = shelved
      /\ "items" \in S!Table /\ "sources" \in S!Table
  <2>1. hosts[p] \in HostType /\ hosts \in [Process -> HostType] /\ shelf \in [S!Table -> Pair]
    BY DEF StartInv, StartTypes
  <2>2. hosts[p].step \in 0..9 /\ hosts[p].step > 1
    BY <2>1 DEF HostType, S!Widen
  <2> QED
    BY <2>1, <2>2 DEF S!Widen, S!Table
<1>1. /\ \A q \in Process : q # p => hosts'[q] = hosts[q]
      /\ new = IF i = 8 THEN 0 ELSE hosts[p].step + 1
  <2>1. CASE i = 8
    <3>1. S!Opened(p)
      BY <2>1, Statements DEF S!Widen
    <3>2. hosts' = [hosts EXCEPT ![p] = [hosts[p] EXCEPT !.at = @ + 1, !.step = 0, !.old = FALSE]]
      BY <3>1 DEF S!Opened, S!Goto
    <3>3. [hosts[p] EXCEPT !.at = @ + 1, !.step = 0, !.old = FALSE].step = 0
      BY <1>0 DEF HostType
    <3> QED
      BY <1>0, <2>1, <3>2, <3>3
  <2>2. CASE i # 8
    <3> DEFINE n == hosts[p].step + 1
    <3>1. S!Goto(p, [hosts[p] EXCEPT !.step = n])
      BY <2>2, Statements DEF S!Widen
    <3> HIDE DEF n
    <3>2. hosts' = [hosts EXCEPT ![p] = [hosts[p] EXCEPT !.step = n]]
      BY <3>1 DEF S!Goto
    <3>3. [hosts[p] EXCEPT !.step = n].step = n
      BY <1>0 DEF HostType
    <3>4. hosts'[p].step = n
      BY <1>0, <3>2, <3>3
    <3> QED
      BY <1>0, <2>2, <3>2, <3>4 DEF n
  <2> QED
    BY <2>1, <2>2
<1>2. ASSUME NEW verb \in Verb, NEW t \in S!Table, S!Widening[i] = <<verb, t>>
      PROVE  /\ S!CanRun(verb, shelf[t])
             /\ shelf'[t] = S!Run(verb, shelf[t])
             /\ \A u \in S!Table : u # t => shelf'[u] = shelf[u]
  <2>1. S!Widening[i][1] = verb /\ S!Widening[i][2] = t
    BY <1>2
  <2>2. S!CanRun(verb, shelf[t]) /\ shelf' = [shelf EXCEPT ![t] = S!Run(verb, @)]
    BY <2>1 DEF S!Widen
  <2> QED
    BY <1>0, <2>2
<1>3. S!Nobody \in TableType /\ S!Nobody.rows = {} /\ S!Empty.rows = {}
  BY DEF S!Nobody, S!Empty, TableType
<1>4. /\ hosts[p].step = i + 1
      /\ i \in 2..7 => Busy(hosts[p])
      /\ i \in 3..8 => Holding(hosts[p])
  BY <1>0 DEF Busy, Holding
<1>5. /\ new \in 3..8 <=> i \in 1..6
      /\ new \in 4..9 <=> i \in 2..7
      /\ new = 8 <=> i = 6
      /\ new \in 7..9 <=> i \in 5..7
  BY <1>0, <1>1
<1> HIDE DEF i, new
<1>6. ASSUME i \in 1..6 => shelf'["items"].legacy # S!Nobody,
             i \in 2..7 => shelf'["sources"].legacy # S!Nobody,
             i = 6 => Covered(shelf'["items"]),
             i \in 5..7 => Covered(shelf'["sources"]),
             \A q \in Process : q # p /\ Busy(hosts[q]) =>
                 i \notin 1..6 /\ shelf'["items"].legacy = shelf["items"].legacy
                 /\ (Covered(shelf["items"]) => Covered(shelf'["items"])),
             \A q \in Process : q # p /\ Holding(hosts[q]) =>
                 i \notin 2..7 /\ shelf'["sources"].legacy = shelf["sources"].legacy
                 /\ (Covered(shelf["sources"]) => Covered(shelf'["sources"])),
             \A t \in S!Table :
                 shelf[t].now.rows \cup shelf[t].legacy.rows \subseteq shelf'[t].now.rows \cup shelf'[t].legacy.rows
      PROVE  ShelfInv'
  <2>1. NothingLost'
    BY <1>0, <1>6 DEF ShelfInv, NothingLost
  <2>2. Busy(hosts'[p]) <=> i \in 1..6
    BY <1>5 DEF Busy, new
  <2>3. Holding(hosts'[p]) <=> i \in 2..7
    BY <1>5 DEF Holding, new
  <2>4. ASSUME NEW q \in Process
        PROVE  /\ Busy(hosts'[q]) => shelf'["items"].legacy # S!Nobody
               /\ Holding(hosts'[q]) => shelf'["sources"].legacy # S!Nobody
               /\ hosts'[q].step = 8 => Covered(shelf'["items"])
               /\ hosts'[q].step \in 7..9 => Covered(shelf'["sources"])
    <3>1. CASE q = p
      BY <1>5, <1>6, <2>2, <2>3, <3>1 DEF new
    <3>2. CASE q # p
      <4>1. hosts'[q] = hosts[q]
        BY <1>1, <3>2
      <4>2. /\ hosts[q].step = 8 => Busy(hosts[q])
            /\ hosts[q].step \in 7..9 => Holding(hosts[q])
        BY DEF Busy, Holding
      <4>3. /\ Busy(hosts[q]) => shelf["items"].legacy # S!Nobody
            /\ Holding(hosts[q]) => shelf["sources"].legacy # S!Nobody
            /\ hosts[q].step = 8 => Covered(shelf["items"])
            /\ hosts[q].step \in 7..9 => Covered(shelf["sources"])
        BY DEF ShelfInv, OneRebuild
      <4> QED
        BY <1>6, <3>2, <4>1, <4>2, <4>3
    <3> QED
      BY <3>1, <3>2
  <2>5. ASSUME NEW q \in Process, NEW o \in Process
        PROVE  /\ Busy(hosts'[q]) /\ Busy(hosts'[o]) => q = o
               /\ Holding(hosts'[q]) /\ Holding(hosts'[o]) => q = o
    <3>1. \A r \in Process : r # p => hosts'[r] = hosts[r]
      BY <1>1
    <3>2. CASE q # p /\ o # p
      BY <3>1, <3>2 DEF ShelfInv, OneRebuild
    <3>3. CASE q = p \/ o = p
      BY <1>6, <2>2, <2>3, <3>1, <3>3
    <3> QED
      BY <3>2, <3>3
  <2>6. OneRebuild'
    BY <2>4, <2>5 DEF OneRebuild, Busy, Holding, Covered
  <2> QED
    BY <1>0, <2>1, <2>6 DEF ShelfInv
<1>7. \A q \in Process : q # p =>
        /\ i \in 2..7 => ~Busy(hosts[q])
        /\ i \in 3..8 => ~Holding(hosts[q])
        /\ shelf["items"].legacy = S!Nobody => ~Busy(hosts[q])
        /\ shelf["sources"].legacy = S!Nobody => ~Holding(hosts[q])
  BY <1>4 DEF ShelfInv, OneRebuild
<1>8. /\ i \in 2..7 => shelf["items"].legacy # S!Nobody
      /\ i \in 3..8 => shelf["sources"].legacy # S!Nobody
      /\ i = 7 => Covered(shelf["items"])
      /\ i \in 6..8 => Covered(shelf["sources"])
  <2>1. (i = 7 => hosts[p].step = 8) /\ (i \in 6..8 => hosts[p].step \in 7..9)
    BY <1>0, <1>4
  <2> QED
    BY <1>4, <2>1 DEF ShelfInv, OneRebuild
<1>9. \A t \in S!Table : t \in {"items", "sources"} /\ shelf[t] \in Pair
  BY <1>0 DEF S!Table
<1>11. CASE i = 1
  <2>1. /\ shelf["items"].now # S!Nobody /\ shelf["items"].legacy = S!Nobody
        /\ shelf'["items"] = [now |-> S!Nobody, legacy |-> shelf["items"].now]
        /\ shelf'["sources"] = shelf["sources"]
    BY <1>0, <1>2, <1>11, Statements DEF Verb, S!CanRun, S!Run
  <2> QED
    BY <1>3, <1>6, <1>7, <1>9, <1>11, <2>1
<1>12. CASE i = 2
  <2>1. /\ shelf["sources"].now # S!Nobody /\ shelf["sources"].legacy = S!Nobody
        /\ shelf'["sources"] = [now |-> S!Nobody, legacy |-> shelf["sources"].now]
        /\ shelf'["items"] = shelf["items"]
    BY <1>0, <1>2, <1>12, Statements DEF Verb, S!CanRun, S!Run
  <2> QED
    BY <1>3, <1>6, <1>7, <1>8, <1>9, <1>12, <2>1
<1>13. CASE i = 3
  <2>1. /\ S!CanRun("create", shelf["sources"])
        /\ shelf'["sources"] = S!Run("create", shelf["sources"])
        /\ shelf'["items"] = shelf["items"]
    BY <1>0, <1>2, <1>13, Statements DEF Verb
  <2>2. shelf["sources"].now = S!Nobody
    BY <2>1 DEF S!CanRun
  <2>3. shelf'["sources"].now = S!Empty /\ shelf'["sources"].legacy = shelf["sources"].legacy
    BY <1>0, <1>9, <2>1 DEF S!Run, Pair
  <2> QED
    BY <1>3, <1>6, <1>7, <1>8, <1>9, <1>13, <2>1, <2>2, <2>3
<1>14. CASE i = 4
  <2>1. /\ S!CanRun("create", shelf["items"])
        /\ shelf'["items"] = S!Run("create", shelf["items"])
        /\ shelf'["sources"] = shelf["sources"]
    BY <1>0, <1>2, <1>14, Statements DEF Verb
  <2>2. shelf["items"].now = S!Nobody
    BY <2>1 DEF S!CanRun
  <2>3. shelf'["items"].now = S!Empty /\ shelf'["items"].legacy = shelf["items"].legacy
    BY <1>0, <1>9, <2>1 DEF S!Run, Pair
  <2> QED
    BY <1>3, <1>6, <1>7, <1>8, <1>9, <1>14, <2>1, <2>2, <2>3
<1>15. CASE i = 5
  <2>1. /\ shelf'["sources"] = S!Run("copy", shelf["sources"])
        /\ shelf'["items"] = shelf["items"]
    BY <1>0, <1>2, <1>15, Statements DEF Verb
  <2>2. /\ shelf'["sources"].legacy = shelf["sources"].legacy
        /\ shelf'["sources"].now.rows = shelf["sources"].now.rows \cup shelf["sources"].legacy.rows
    BY <1>0, <1>9, <2>1 DEF S!Run, Pair, TableType
  <2> QED
    BY <1>6, <1>7, <1>8, <1>9, <1>15, <2>1, <2>2 DEF Covered
<1>16. CASE i = 6
  <2>1. /\ shelf'["items"] = S!Run("copy", shelf["items"])
        /\ shelf'["sources"] = shelf["sources"]
    BY <1>0, <1>2, <1>16, Statements DEF Verb
  <2>2. /\ shelf'["items"].legacy = shelf["items"].legacy
        /\ shelf'["items"].now.rows = shelf["items"].now.rows \cup shelf["items"].legacy.rows
    BY <1>0, <1>9, <2>1 DEF S!Run, Pair, TableType
  <2> QED
    BY <1>6, <1>7, <1>8, <1>9, <1>16, <2>1, <2>2 DEF Covered
<1>17. CASE i = 7
  <2>1. /\ shelf'["items"] = S!Run("drop", shelf["items"])
        /\ shelf'["sources"] = shelf["sources"]
    BY <1>0, <1>2, <1>17, Statements DEF Verb
  <2>2. shelf'["items"].now = shelf["items"].now /\ shelf'["items"].legacy = S!Nobody
    BY <1>0, <1>9, <2>1 DEF S!Run, Pair
  <2> QED
    BY <1>3, <1>6, <1>7, <1>8, <1>9, <1>17, <2>1, <2>2 DEF Covered
<1>18. CASE i = 8
  <2>1. /\ shelf'["sources"] = S!Run("drop", shelf["sources"])
        /\ shelf'["items"] = shelf["items"]
    BY <1>0, <1>2, <1>18, Statements DEF Verb
  <2>2. shelf'["sources"].now = shelf["sources"].now /\ shelf'["sources"].legacy = S!Nobody
    BY <1>0, <1>9, <2>1 DEF S!Run, Pair
  <2> QED
    BY <1>3, <1>6, <1>7, <1>8, <1>9, <1>18, <2>1, <2>2 DEF Covered
<1> QED
  BY <1>0, <1>11, <1>12, <1>13, <1>14, <1>15, <1>16, <1>17, <1>18
LEMMA ShelfStep ==
    ASSUME StartInv, ShelfInv, S!Next
    PROVE  ShelfInv'
<1>0. /\ hosts \in [Process -> HostType] /\ shelf \in [S!Table -> Pair] /\ StartTypes
      /\ shelved \in [S!Table -> SUBSET {"before", "since"}]
      /\ hosts' \in [Process -> HostType]
      /\ \A p \in Process : hosts[p] \in HostType /\ HostKnows(hosts[p], columns, dispatches.form)
  BY StartStep DEF StartInv, StartTypes, ShelfInv, HostsKnow
<1>1. ASSUME NEW p \in Process, NEW h, hosts' = [hosts EXCEPT ![p] = h], h.step < 3,
             shelved' \in [S!Table -> SUBSET {"before", "since"}],
             \A t \in S!Table :
                 /\ shelf'[t].legacy = shelf[t].legacy
                 /\ shelf[t].now.rows \subseteq shelf'[t].now.rows
                 /\ shelved'[t] \subseteq shelved[t] \cup shelf'[t].now.rows
      PROVE  ShelfInv'
  <2>1. h \in HostType
    <3>1. hosts'[p] = h
      BY <1>0, <1>1
    <3> QED
      BY <1>0, <3>1
  <2> QED
    BY <1>0, <1>1, <2>1, ShelfKept
<1>2. ASSUME NEW p \in Process, NEW h, S!Goto(p, h), h.step < 3, UNCHANGED <<shelf, shelved>>
      PROVE  ShelfInv'
  <2>1. hosts' = [hosts EXCEPT ![p] = h]
    BY <1>2 DEF S!Goto
  <2> QED
    BY <1>0, <1>1, <1>2, <2>1
<1>3. ASSUME NEW p \in Process, S!Opened(p), UNCHANGED <<shelf, shelved>>
      PROVE  ShelfInv'
  <2> DEFINE h == [hosts[p] EXCEPT !.at = @ + 1, !.step = 0, !.old = FALSE]
  <2>1. h.step < 3
    BY <1>0 DEF HostType
  <2>2. S!Goto(p, h)
    BY <1>3 DEF S!Opened
  <2> HIDE DEF h
  <2> QED
    BY <1>2, <1>3, <2>1, <2>2
<1>4. ASSUME NEW p \in Process, NEW n \in 0..2, NEW old \in BOOLEAN, UNCHANGED <<shelf, shelved>>,
             \/ S!Goto(p, [hosts[p] EXCEPT !.step = n])
             \/ S!Goto(p, [hosts[p] EXCEPT !.step = n, !.old = old])
      PROVE  ShelfInv'
  <2> DEFINE h == [hosts[p] EXCEPT !.step = n]
             g == [hosts[p] EXCEPT !.step = n, !.old = old]
  <2>1. h.step < 3 /\ g.step < 3
    BY <1>0 DEF HostType
  <2>2. S!Goto(p, h) \/ S!Goto(p, g)
    BY <1>4
  <2> HIDE DEF h, g
  <2> QED
    BY <1>2, <1>4, <2>1, <2>2
<1>5. ASSUME NEW p \in Process, NEW how \in {"service", "local"}, S!Launch(p, how)
      PROVE  ShelfInv'
  <2> DEFINE h == [S!Off EXCEPT !.how = how, !.at = 1]
  <2>1. h.step < 3
    BY DEF S!Off
  <2>2. S!Goto(p, h) /\ UNCHANGED <<shelf, shelved>>
    BY <1>5 DEF S!Launch, S!SameTables
  <2> HIDE DEF h
  <2> QED
    BY <1>2, <2>1, <2>2
<1>6. ASSUME NEW p \in Process, S!Die(p)
      PROVE  ShelfInv'
  <2>1. S!Off.step < 3
    BY DEF S!Off
  <2>2. S!Goto(p, S!Off) /\ UNCHANGED <<shelf, shelved>>
    BY <1>6 DEF S!Die, S!SameTables
  <2> QED
    BY <1>2, <2>1, <2>2
<1>7. ASSUME NEW p \in Process, S!ReadColumns(p) \/ S!ReadForm(p)
      PROVE  ShelfInv'
  <2>1. PICK old \in BOOLEAN : S!Read(p, old)
    BY <1>7 DEF S!ReadColumns, S!ReadForm
  <2>2. UNCHANGED <<shelf, shelved>> /\ 1 \in 0..2
    BY <1>7 DEF S!ReadColumns, S!ReadForm, S!SameTables
  <2>3. S!Goto(p, [hosts[p] EXCEPT !.step = 1, !.old = old])
    BY <2>1 DEF S!Read
  <2> QED
    BY <1>4, <2>2, <2>3
<1>8. ASSUME NEW p \in Process, S!AddColumns(p) \/ S!ApplySchema(p)
      PROVE  ShelfInv'
  BY <1>3, <1>8 DEF S!AddColumns, S!ApplySchema
<1>9. ASSUME NEW p \in Process, S!CreateKnowledge(p)
      PROVE  ShelfInv'
  <2> DEFINE h == [hosts[p] EXCEPT !.step = 1]
  <2>1. h.step < 3
    BY <1>0 DEF HostType
  <2>2. hosts' = [hosts EXCEPT ![p] = h] /\ shelved' = shelved
    BY <1>9 DEF S!CreateKnowledge, S!Goto
  <2>3. \A t \in S!Table : shelf'[t].legacy = shelf[t].legacy /\ shelf[t].now.rows \subseteq shelf'[t].now.rows
    <3>1. \A t \in S!Table : shelf[t] \in Pair
      BY <1>0
    <3>2. S!Nobody.rows = {}
      BY DEF S!Nobody
    <3> QED
      BY <1>9, <3>1, <3>2 DEF S!CreateKnowledge, Pair
  <2> HIDE DEF h
  <2> QED
    BY <1>0, <1>1, <2>1, <2>2, <2>3
<1>10. ASSUME NEW p \in Process, S!ReadSources(p)
       PROVE  ShelfInv'
  <2>1. UNCHANGED <<shelf, shelved>> /\ 2 \in 0..2 /\ FALSE \in BOOLEAN
    BY <1>10 DEF S!ReadSources, S!SameTables
  <2>2. S!Goto(p, [hosts[p] EXCEPT !.step = 2]) \/ S!Opened(p)
    BY <1>10 DEF S!ReadSources
  <2> QED
    BY <1>3, <1>4, <2>1, <2>2
<1>11. ASSUME NEW p \in Process, NEW env \in S!Environment, NEW failed \in SUBSET {"gateway", "drive"},
              S!OpenGateway(p, env, failed)
       PROVE  ShelfInv'
  <2> DEFINE able == S!Configured(env) \ failed
             h == [hosts[p] EXCEPT !.at = @ + 1, !.able = able]
  <2>1. hosts[p].at = 7 /\ hosts[p].step \in 0..9
    BY <1>0, <1>11, Places DEF S!OpenGateway, HostType
  <2>2. hosts[p].step < 3
    BY <1>0, <2>1 DEF HostKnows
  <2>3. S!Goto(p, h) /\ UNCHANGED <<shelf, shelved>>
    BY <1>11 DEF S!OpenGateway, S!SameTables
  <2> HIDE DEF able
  <2>4. h.step = hosts[p].step
    BY <1>0 DEF HostType
  <2> HIDE DEF h
  <2> QED
    BY <1>2, <2>2, <2>3, <2>4
<1>12. ASSUME NEW p \in Process, S!RecordDispatch(p)
       PROVE  ShelfInv'
  BY <1>12 DEF S!RecordDispatch, ShelfInv, OneRebuild, NothingLost, Busy, Holding, Covered
<1>13. ASSUME NEW p \in Process, NEW t \in S!Table, S!Shelve(p, t)
       PROVE  ShelfInv'
  <2>1. hosts[p].at = 8 /\ hosts[p].step \in 0..9
    BY <1>0, <1>13, Places DEF S!Shelve, HostType
  <2>2. hosts[p].step < 3
    BY <1>0, <2>1 DEF HostKnows
  <2>3. hosts' = [hosts EXCEPT ![p] = hosts[p]]
    BY <1>0, <1>13 DEF S!Shelve
  <2>4. shelved' = [shelved EXCEPT ![t] = @ \cup {"since"}] /\ shelf' = [shelf EXCEPT ![t].now.rows = @ \cup {"since"}]
    BY <1>13 DEF S!Shelve
  <2>5. shelved' \in [S!Table -> SUBSET {"before", "since"}]
    BY <1>0, <2>4
  <2>6. /\ shelf'[t].legacy = shelf[t].legacy
        /\ shelf'[t].now.rows = shelf[t].now.rows \cup {"since"}
        /\ \A u \in S!Table : u # t => shelf'[u] = shelf[u]
    BY <1>0, <2>4 DEF Pair, TableType
  <2>7. shelved'[t] = shelved[t] \cup {"since"} /\ \A u \in S!Table : u # t => shelved'[u] = shelved[u]
    BY <1>0, <2>4
  <2>8. \A u \in S!Table : /\ shelf'[u].legacy = shelf[u].legacy
                           /\ shelf[u].now.rows \subseteq shelf'[u].now.rows
                           /\ shelved'[u] \subseteq shelved[u] \cup shelf'[u].now.rows
    BY <2>6, <2>7
  <2> QED
    BY <1>1, <2>2, <2>3, <2>5, <2>8
<1> QED
  BY <1>5, <1>6, <1>7, <1>8, <1>9, <1>10, <1>11, <1>12, <1>13, ShelfRebuilt DEF S!Next

(* Who polls finds every table and every row, one service polls, and no    *)
(* knowledge is dropped that no table holds, for any number of processes   *)
(* that start, fail and die anywhere.                                      *)
THEOREM PollingFindsAll == Spec => []PollingIsWhole
<1>1. StartInv /\ ShelfInv /\ [Next]_vars => StartInv' /\ ShelfInv'
  <2>1. UNCHANGED startupVars /\ StartInv => StartInv'
    BY DEF startupVars, StartInv, StartTypes, HostsKnow, OneService
  <2>2. UNCHANGED startupVars /\ ShelfInv => ShelfInv'
    BY DEF startupVars, ShelfInv, OneRebuild, NothingLost, Busy, Holding, Covered
  <2> QED
    BY <2>1, <2>2, StartStep, ShelfStep, Followed
<1>2. StartInv /\ ShelfInv => PollingIsWhole
  <2> SUFFICES ASSUME StartInv, ShelfInv PROVE PollingIsWhole
    OBVIOUS
  <2>1. ASSUME NEW p \in Process, S!Polls(p)
        PROVE  /\ columns = S!Additive
               /\ dispatches = [form |-> "current", rows |-> recorded]
               /\ "drive" \in hosts[p].able => "google" \in hosts[p].able
               /\ hosts[p].how = "service" => lock = p
    <3>1. hosts[p].at = 8 /\ HostKnows(hosts[p], columns, dispatches.form)
      BY <2>1, Places DEF StartInv, HostsKnow
    <3>2. S!Additive \subseteq columns /\ dispatches.form = "current"
      BY <3>1 DEF HostKnows, S!Additive
    <3>3. dispatches = [form |-> "current", rows |-> recorded]
      BY <3>2 DEF StartInv, StartTypes
    <3>4. hosts[p].how = "service" => lock = p
      BY <3>1 DEF StartInv, OneService
    <3> QED
      BY <3>1, <3>2, <3>3, <3>4 DEF StartInv, StartTypes, HostKnows
  <2>2. \A t \in S!Table : shelved[t] \subseteq shelf[t].now.rows \cup shelf[t].legacy.rows
    BY DEF ShelfInv, NothingLost
  <2>3. ASSUME NEW p \in Process, NEW q \in Process,
               S!Polls(p), S!Polls(q), {hosts[p].how, hosts[q].how} = {"service"}
        PROVE  p = q
    <3>1. hosts[p].how = "service" /\ hosts[q].how = "service"
      BY <2>3
    <3> QED
      BY <2>1, <2>3, <3>1
  <2> QED
    BY <2>1, <2>2, <2>3 DEF PollingIsWhole, S!PollingIsWhole
<1> QED
  BY <1>1, <1>2, StartInvInit, ShelfInvInit, PTL DEF Spec
-----------------------------------------------------------------------------
(* The router. The nine rules one by one, what they ask for and what they  *)
(* say; then the first that applies, as one conditional.                   *)
RouteTo(workflow, confidence) == [workflow |-> workflow, confidence |-> confidence]

Rule(m, n, condition, workflow, confidence) ==
    /\ W!Rules(m)[n][1] <=> condition
    /\ W!Rules(m)[n][2] = workflow
    /\ W!Rules(m)[n][3] = confidence

LEMMA TheRules ==
    ASSUME NEW m
    PROVE  /\ DOMAIN W!Rules(m) = 1..9
           /\ Rule(m, 1, m.fast, "FAST", "HIGH")
           /\ Rule(m, 2, m.hits.action > 0, "TECHNICAL", W!Sure(m.hits.action + m.hits.domain))
           /\ Rule(m, 3, m.hits.domain > 0 /\ ~m.explains, "TECHNICAL", W!Sure(m.hits.domain))
           /\ Rule(m, 4, m.hits.workspace > 0, "GOOGLE_WORKSPACE", "HIGH")
           /\ Rule(m, 5, m.hits.presentation > 0, "PRESENTATION", "HIGH")
           /\ Rule(m, 6, m.hits.academic > 0, "ACADEMIC", W!Sure(m.hits.academic))
           /\ Rule(m, 7, m.hits.strategy >= 2 \/ (m.hits.strategy = 1 /\ ~m.explains), "STRATEGY", W!Sure(m.hits.strategy))
           /\ Rule(m, 8, W!Suppressed(m), "GENERAL", "MEDIUM")
           /\ Rule(m, 9, TRUE, "GENERAL", "LOW")
<1>1. Rule(m, 1, m.fast, "FAST", "HIGH")
  <2>1. W!Rules(m)[1] = <<m.fast, "FAST", "HIGH">>
    BY DEF W!Rules
  <2>2. W!Rules(m)[1][1] = (m.fast)
    BY <2>1
  <2>3. W!Rules(m)[1][2] = "FAST" /\ W!Rules(m)[1][3] = "HIGH"
    BY <2>1
  <2> QED
    BY <2>2, <2>3 DEF Rule
<1>2. Rule(m, 2, m.hits.action > 0, "TECHNICAL", W!Sure(m.hits.action + m.hits.domain))
  <2>1. W!Rules(m)[2] = <<m.hits.action > 0, "TECHNICAL", W!Sure(m.hits.action + m.hits.domain)>>
    BY DEF W!Rules
  <2>2. W!Rules(m)[2][1] = (m.hits.action > 0)
    BY <2>1
  <2>3. W!Rules(m)[2][2] = "TECHNICAL" /\ W!Rules(m)[2][3] = W!Sure(m.hits.action + m.hits.domain)
    BY <2>1
  <2> QED
    BY <2>2, <2>3 DEF Rule
<1>3. Rule(m, 3, m.hits.domain > 0 /\ ~m.explains, "TECHNICAL", W!Sure(m.hits.domain))
  <2>1. W!Rules(m)[3] = <<m.hits.domain > 0 /\ ~m.explains, "TECHNICAL", W!Sure(m.hits.domain)>>
    BY DEF W!Rules
  <2>2. W!Rules(m)[3][1] = (m.hits.domain > 0 /\ ~m.explains)
    BY <2>1
  <2>3. W!Rules(m)[3][2] = "TECHNICAL" /\ W!Rules(m)[3][3] = W!Sure(m.hits.domain)
    BY <2>1
  <2> QED
    BY <2>2, <2>3 DEF Rule
<1>4. Rule(m, 4, m.hits.workspace > 0, "GOOGLE_WORKSPACE", "HIGH")
  <2>1. W!Rules(m)[4] = <<m.hits.workspace > 0, "GOOGLE_WORKSPACE", "HIGH">>
    BY DEF W!Rules
  <2>2. W!Rules(m)[4][1] = (m.hits.workspace > 0)
    BY <2>1
  <2>3. W!Rules(m)[4][2] = "GOOGLE_WORKSPACE" /\ W!Rules(m)[4][3] = "HIGH"
    BY <2>1
  <2> QED
    BY <2>2, <2>3 DEF Rule
<1>5. Rule(m, 5, m.hits.presentation > 0, "PRESENTATION", "HIGH")
  <2>1. W!Rules(m)[5] = <<m.hits.presentation > 0, "PRESENTATION", "HIGH">>
    BY DEF W!Rules
  <2>2. W!Rules(m)[5][1] = (m.hits.presentation > 0)
    BY <2>1
  <2>3. W!Rules(m)[5][2] = "PRESENTATION" /\ W!Rules(m)[5][3] = "HIGH"
    BY <2>1
  <2> QED
    BY <2>2, <2>3 DEF Rule
<1>6. Rule(m, 6, m.hits.academic > 0, "ACADEMIC", W!Sure(m.hits.academic))
  <2>1. W!Rules(m)[6] = <<m.hits.academic > 0, "ACADEMIC", W!Sure(m.hits.academic)>>
    BY DEF W!Rules
  <2>2. W!Rules(m)[6][1] = (m.hits.academic > 0)
    BY <2>1
  <2>3. W!Rules(m)[6][2] = "ACADEMIC" /\ W!Rules(m)[6][3] = W!Sure(m.hits.academic)
    BY <2>1
  <2> QED
    BY <2>2, <2>3 DEF Rule
<1>7. Rule(m, 7, m.hits.strategy >= 2 \/ (m.hits.strategy = 1 /\ ~m.explains), "STRATEGY", W!Sure(m.hits.strategy))
  <2>1. W!Rules(m)[7] = <<m.hits.strategy >= 2 \/ (m.hits.strategy = 1 /\ ~m.explains), "STRATEGY", W!Sure(m.hits.strategy)>>
    BY DEF W!Rules
  <2>2. W!Rules(m)[7][1] = (m.hits.strategy >= 2 \/ (m.hits.strategy = 1 /\ ~m.explains))
    BY <2>1
  <2>3. W!Rules(m)[7][2] = "STRATEGY" /\ W!Rules(m)[7][3] = W!Sure(m.hits.strategy)
    BY <2>1
  <2> QED
    BY <2>2, <2>3 DEF Rule
<1>8. Rule(m, 8, W!Suppressed(m), "GENERAL", "MEDIUM")
  <2>1. W!Rules(m)[8] = <<W!Suppressed(m), "GENERAL", "MEDIUM">>
    BY DEF W!Rules
  <2>2. W!Rules(m)[8][1] = (W!Suppressed(m))
    BY <2>1
  <2>3. W!Rules(m)[8][2] = "GENERAL" /\ W!Rules(m)[8][3] = "MEDIUM"
    BY <2>1
  <2> QED
    BY <2>2, <2>3 DEF Rule
<1>9. Rule(m, 9, TRUE, "GENERAL", "LOW")
  <2>1. W!Rules(m)[9] = <<TRUE, "GENERAL", "LOW">>
    BY DEF W!Rules
  <2>2. W!Rules(m)[9][1] = (TRUE)
    BY <2>1
  <2>3. W!Rules(m)[9][2] = "GENERAL" /\ W!Rules(m)[9][3] = "LOW"
    BY <2>1
  <2> QED
    BY <2>2, <2>3 DEF Rule
<1>10. DOMAIN W!Rules(m) = 1..9
  BY DEF W!Rules
<1> QED
  BY <1>1, <1>2, <1>3, <1>4, <1>5, <1>6, <1>7, <1>8, <1>9, <1>10

(* The first rule that applies decides.                                    *)
LEMMA FirstRule ==
    ASSUME NEW m, NEW n \in 1..9, W!Rules(m)[n][1], \A k \in 1..(n - 1) : ~W!Rules(m)[k][1]
    PROVE  W!Classify(m) = RouteTo(W!Rules(m)[n][2], W!Rules(m)[n][3])
<1> DEFINE rules == W!Rules(m)
           those == {i \in DOMAIN rules : rules[i][1]}
<1>1. DOMAIN rules = 1..9
  BY TheRules
<1>2. n \in those /\ \A k \in those : n <= k
  BY <1>1
<1>3. W!Min(those) = n
  <2> HIDE DEF those
  <2> QED
    BY <1>2, <1>1 DEF W!Min, those
<1> QED
  BY <1>3 DEF W!Classify, RouteTo


RouteFor(fast, explains, h) ==
    IF fast THEN RouteTo("FAST", "HIGH")
    ELSE IF h.action > 0 THEN RouteTo("TECHNICAL", W!Sure(h.action + h.domain))
    ELSE IF h.domain > 0 /\ ~explains THEN RouteTo("TECHNICAL", W!Sure(h.domain))
    ELSE IF h.workspace > 0 THEN RouteTo("GOOGLE_WORKSPACE", "HIGH")
    ELSE IF h.presentation > 0 THEN RouteTo("PRESENTATION", "HIGH")
    ELSE IF h.academic > 0 THEN RouteTo("ACADEMIC", W!Sure(h.academic))
    ELSE IF h.strategy >= 2 \/ (h.strategy = 1 /\ ~explains) THEN RouteTo("STRATEGY", W!Sure(h.strategy))
    ELSE IF explains /\ (h.domain > 0 \/ h.strategy = 1) THEN RouteTo("GENERAL", "MEDIUM")
    ELSE RouteTo("GENERAL", "LOW")

LEMMA TheRoute ==
    ASSUME NEW m
    PROVE  W!Classify(m) = RouteFor(m.fast, m.explains, m.hits)
<1> DEFINE applies(n) == W!Rules(m)[n][1]
           chosen(n)  == RouteTo(W!Rules(m)[n][2], W!Rules(m)[n][3])
<1>1. ASSUME NEW n \in 1..9, applies(n), \A k \in 1..(n - 1) : ~applies(k)
      PROVE  W!Classify(m) = chosen(n)
  BY <1>1, FirstRule
<1>2. /\ applies(1) <=> m.fast
      /\ applies(2) <=> m.hits.action > 0
      /\ applies(3) <=> m.hits.domain > 0 /\ ~m.explains
      /\ applies(4) <=> m.hits.workspace > 0
      /\ applies(5) <=> m.hits.presentation > 0
      /\ applies(6) <=> m.hits.academic > 0
      /\ applies(7) <=> m.hits.strategy >= 2 \/ (m.hits.strategy = 1 /\ ~m.explains)
      /\ applies(8) <=> m.explains /\ (m.hits.domain > 0 \/ m.hits.strategy = 1)
      /\ applies(9)
  BY TheRules DEF Rule, W!Suppressed
<1>3. /\ chosen(1) = RouteTo("FAST", "HIGH")
      /\ chosen(2) = RouteTo("TECHNICAL", W!Sure(m.hits.action + m.hits.domain))
      /\ chosen(3) = RouteTo("TECHNICAL", W!Sure(m.hits.domain))
      /\ chosen(4) = RouteTo("GOOGLE_WORKSPACE", "HIGH")
      /\ chosen(5) = RouteTo("PRESENTATION", "HIGH")
      /\ chosen(6) = RouteTo("ACADEMIC", W!Sure(m.hits.academic))
      /\ chosen(7) = RouteTo("STRATEGY", W!Sure(m.hits.strategy))
      /\ chosen(8) = RouteTo("GENERAL", "MEDIUM")
      /\ chosen(9) = RouteTo("GENERAL", "LOW")
  BY TheRules DEF Rule
<1> HIDE DEF applies, chosen
<1>4. CASE applies(1)
  BY <1>1, <1>2, <1>3, <1>4 DEF RouteFor
<1>5. CASE ~applies(1) /\ applies(2)
  BY <1>1, <1>2, <1>3, <1>5 DEF RouteFor
<1>6. CASE ~applies(1) /\ ~applies(2) /\ applies(3)
  BY <1>1, <1>2, <1>3, <1>6 DEF RouteFor
<1>7. CASE ~applies(1) /\ ~applies(2) /\ ~applies(3) /\ applies(4)
  BY <1>1, <1>2, <1>3, <1>7 DEF RouteFor
<1>8. CASE ~applies(1) /\ ~applies(2) /\ ~applies(3) /\ ~applies(4) /\ applies(5)
  BY <1>1, <1>2, <1>3, <1>8 DEF RouteFor
<1> DEFINE late == ~applies(1) /\ ~applies(2) /\ ~applies(3) /\ ~applies(4) /\ ~applies(5)
<1>9. CASE late /\ applies(6)
  BY <1>1, <1>2, <1>3, <1>9 DEF RouteFor
<1>10. CASE late /\ ~applies(6) /\ applies(7)
  BY <1>1, <1>2, <1>3, <1>10 DEF RouteFor
<1>11. CASE late /\ ~applies(6) /\ ~applies(7) /\ applies(8)
  BY <1>1, <1>2, <1>3, <1>11 DEF RouteFor
<1>12. CASE late /\ ~applies(6) /\ ~applies(7) /\ ~applies(8)
  BY <1>1, <1>2, <1>3, <1>12 DEF RouteFor
<1> QED
  BY <1>4, <1>5, <1>6, <1>7, <1>8, <1>9, <1>10, <1>11, <1>12


(* A plan.                                                                 *)
Hits == [W!Category -> 0..2]

LEMMA SixHits ==
    ASSUME NEW h \in Hits
    PROVE  /\ h.action \in 0..2 /\ h.domain \in 0..2 /\ h.workspace \in 0..2
           /\ h.presentation \in 0..2 /\ h.academic \in 0..2 /\ h.strategy \in 0..2
           /\ (\A c \in W!Category : h[c] = 0) <=>
                 /\ h.action = 0 /\ h.domain = 0 /\ h.workspace = 0
                 /\ h.presentation = 0 /\ h.academic = 0 /\ h.strategy = 0
BY DEF Hits, W!Category

LEMMA ThePlan ==
    ASSUME NEW m
    PROVE  /\ W!PlanOf(m).message = m
           /\ W!PlanOf(m).route = RouteFor(m.fast, m.explains, m.hits)
           /\ W!PlanOf(m).approval = W!Assess(RouteFor(m.fast, m.explains, m.hits).workflow, m)
           /\ LET w == RouteFor(m.fast, m.explains, m.hits).workflow
              IN  W!PlanOf(m).roles = W!Workflow[w][1] \cup W!Workflow[w][2]
BY TheRoute DEF W!PlanOf

LEMMA TheRoles ==
    \A w \in {"GENERAL", "STRATEGY", "GOOGLE_WORKSPACE", "TECHNICAL", "PRESENTATION", "ACADEMIC", "FAST"} :
        /\ W!Workflow[w][1] \cup W!Workflow[w][2] # {}
        /\ W!Workflow[w][1] \cup W!Workflow[w][2] \subseteq W!Role
<1>1. /\ W!Workflow["GENERAL"] = <<{"CONTROL_TOWER"}, {"FAST_ROUTER"}>>
      /\ W!Workflow["STRATEGY"] = <<{"CONTROL_TOWER"}, {"WORKSPACE_KNOWLEDGE"}>>
      /\ W!Workflow["GOOGLE_WORKSPACE"] = <<{"WORKSPACE_KNOWLEDGE"}, {"EXECUTION_WORKER"}>>
      /\ W!Workflow["TECHNICAL"] = <<{"TECHNICAL_ARCHITECT", "EXECUTION_WORKER"}, {"CONTROL_TOWER"}>>
  BY DEF W!Workflow
<1>2. /\ W!Workflow["PRESENTATION"] = <<{"CONTROL_TOWER", "WORKSPACE_KNOWLEDGE"}, {}>>
      /\ W!Workflow["ACADEMIC"] = <<{"WORKSPACE_KNOWLEDGE"}, {"CONTROL_TOWER"}>>
      /\ W!Workflow["FAST"] = <<{"FAST_ROUTER"}, {}>>
  BY DEF W!Workflow
<1> QED
  BY <1>1, <1>2 DEF W!Role

LEMMA RoutesAreRoutes ==
    ASSUME NEW fast \in BOOLEAN, NEW explains \in BOOLEAN, NEW h \in Hits
    PROVE  LET route == RouteFor(fast, explains, h)
           IN  /\ route.workflow \in {"GENERAL", "STRATEGY", "GOOGLE_WORKSPACE", "TECHNICAL",
                                      "PRESENTATION", "ACADEMIC", "FAST"}
               /\ h.workspace > 0 => route.workflow \in {"FAST", "TECHNICAL", "GOOGLE_WORKSPACE"}
BY SixHits DEF RouteFor, RouteTo

(* Without an explanation asked for no word is ignored.                    *)
LEMMA NoWordIsIgnored ==
    ASSUME NEW fast \in BOOLEAN, NEW h \in Hits
    PROVE  RouteFor(fast, FALSE, h).confidence = "LOW" <=> ~fast /\ \A c \in W!Category : h[c] = 0
<1>1. \A n : W!Sure(n) # "LOW"
  BY DEF W!Sure
<1> QED
  BY <1>1, SixHits DEF RouteFor, RouteTo

LEMMA ExplanationsChangeLittle ==
    ASSUME NEW fast \in BOOLEAN, NEW h \in Hits, RouteFor(fast, TRUE, h) # RouteFor(fast, FALSE, h)
    PROVE  LET workflow == RouteFor(fast, FALSE, h).workflow
           IN  \/ workflow = "TECHNICAL" /\ h.action = 0
               \/ workflow = "STRATEGY" /\ h.strategy = 1
BY SixHits DEF RouteFor, RouteTo

LEMMA Decided == ASSUME NEW m \in W!Message, plan = W!PlanOf(m) PROVE WordsDecide
<1>1. m.fast \in BOOLEAN /\ m.explains \in BOOLEAN /\ m.risky \in BOOLEAN /\ m.hits \in Hits
  BY DEF W!Message, Hits
<1>2. plan.message = m
  BY ThePlan
<1> DEFINE route   == RouteFor(m.fast, m.explains, m.hits)
           risky   == [m EXCEPT !.risky = TRUE]
           asking  == [m EXCEPT !.explains = TRUE]
           telling == [m EXCEPT !.explains = FALSE]
<1>3. /\ risky.fast = m.fast /\ risky.explains = m.explains /\ risky.hits = m.hits /\ risky.risky
      /\ asking.fast = m.fast /\ asking.explains = TRUE /\ asking.hits = m.hits
      /\ telling.fast = m.fast /\ telling.explains = FALSE /\ telling.hits = m.hits
  BY DEF W!Message
<1> HIDE DEF risky, asking, telling
<1>4. /\ plan.route = route
      /\ plan.approval = W!Assess(route.workflow, m)
      /\ plan.roles = W!Workflow[route.workflow][1] \cup W!Workflow[route.workflow][2]
  BY ThePlan
<1>11. /\ W!PlanOf(risky).route = route
       /\ W!PlanOf(risky).approval = W!Assess(route.workflow, risky)
  BY <1>3, ThePlan, Zenon
<1>12. W!PlanOf(asking).route = RouteFor(m.fast, TRUE, m.hits)
  BY <1>3, ThePlan, Zenon
<1>13. W!PlanOf(telling).route = RouteFor(m.fast, FALSE, m.hits)
  BY <1>3, ThePlan, Zenon
<1> HIDE DEF route
<1>5. W!PlanOf(risky).approval = "REQUIRED"
  BY <1>3, <1>11 DEF W!Assess
<1>6. W!Strength(W!PlanOf(risky).approval) >= W!Strength(plan.approval)
  BY <1>4, <1>5 DEF W!Assess, W!AssessWorkflow, W!Strength
<1>7. W!PlanOf(telling).route.confidence = "LOW" <=> ~m.fast /\ \A c \in W!Category : m.hits[c] = 0
  BY <1>1, <1>13, NoWordIsIgnored
<1>8. W!PlanOf(asking).route # W!PlanOf(telling).route =>
          \/ W!PlanOf(telling).route.workflow = "TECHNICAL" /\ m.hits.action = 0
          \/ W!PlanOf(telling).route.workflow = "STRATEGY" /\ m.hits.strategy = 1
  BY <1>1, <1>12, <1>13, ExplanationsChangeLittle
<1>9. /\ m.hits.workspace > 0 => plan.route.workflow \in {"FAST", "TECHNICAL", "GOOGLE_WORKSPACE"}
      /\ plan.roles # {} /\ plan.roles \subseteq W!Role
  BY <1>1, <1>4, RoutesAreRoutes, TheRoles DEF route
<1>10. plan.route.workflow = "GOOGLE_WORKSPACE" => plan.approval = "REQUIRED"
  BY <1>4 DEF W!Assess, W!AssessWorkflow
<1> QED
  BY <1>2, <1>4, <1>11, <1>5, <1>6, <1>7, <1>8, <1>9, <1>10 DEF WordsDecide, W!WordsDecide, risky, asking, telling

PlanInv == \E m \in W!Message : plan = W!PlanOf(m)

LEMMA PlanInvInit == Init => PlanInv
<1>1. W!Quiet \in W!Message
  <2>1. [c \in W!Category |-> 0] \in [W!Category -> 0..2]
    OBVIOUS
  <2> QED
    BY <2>1 DEF W!Quiet, W!Message
<1> QED
  BY <1>1 DEF Init, W!Init, PlanInv

(* What the words of any message decide: a risky one only adds an          *)
(* approval, none is ignored, an explanation asked for undoes little.      *)
THEOREM WordsAreHeard == Spec => []WordsDecide
<1>1. PlanInv /\ [Next]_vars => PlanInv'
  <2>1. W!Next => \E m \in W!Message : plan' = W!PlanOf(m)
    BY DEF W!Next, W!GeneratePlan
  <2> QED
    BY <2>1, Followed DEF PlanInv
<1>2. PlanInv => WordsDecide
  BY Decided DEF PlanInv
<1> QED
  BY <1>1, <1>2, PlanInvInit, PTL DEF Spec

-----------------------------------------------------------------------------
(* The least and the greatest of some numbers.                             *)
LEMMA LeastNumber ==
    ASSUME NEW some, some \subseteq Nat, some # {}
    PROVE  \E x \in some : \A y \in some : x <= y
<1> DEFINE smaller == OpToRel(<, Nat)
<1>1. IsWellFoundedOn(smaller, Nat)
  BY NatLessThanWellFounded
<1>2. \A x, y \in Nat : y < x => <<y, x>> \in smaller
  BY DEF OpToRel
<1> HIDE DEF smaller
<1>3. PICK x \in some : \A y \in some : ~(<<y, x>> \in smaller)
  BY <1>1, WFMin
<1>4. ASSUME NEW y \in some PROVE x <= y
  <2>1. x \in Nat /\ y \in Nat
    OBVIOUS
  <2>2. ~(y < x)
    BY <1>2, <1>3, <2>1
  <2> QED
    BY <2>1, <2>2
<1> QED
  BY <1>4

LEMMA GreatestNumber ==
    ASSUME NEW n \in Nat, NEW some, some \subseteq 0..n, some # {}
    PROVE  \E x \in some : \A y \in some : x >= y
<1> DEFINE turned == {n - x : x \in some}
<1>1. turned \subseteq Nat /\ turned # {}
  <2>1. \A x \in 0..n : n - x \in Nat
    OBVIOUS
  <2>2. \A x \in some : n - x \in Nat
    BY <2>1
  <2> QED
    BY <2>2
<1> HIDE DEF turned
<1>2. PICK t \in turned : \A y \in turned : t <= y
  BY <1>1, LeastNumber, Zenon
<1>3. PICK x \in some : t = n - x
  BY <1>2 DEF turned
<1>4. ASSUME NEW y \in some PROVE x >= y
  <2>1. n - y \in turned
    BY DEF turned
  <2>2. n - x <= n - y
    BY <1>2, <1>3, <2>1
  <2>3. x \in 0..n /\ y \in 0..n
    OBVIOUS
  <2> QED
    BY <2>2, <2>3
<1> QED
  BY <1>4

LEMMA MinOfQuestions ==
    ASSUME NEW some, some \subseteq C!Question, some # {}
    PROVE  C!Min(some) \in some /\ \A y \in some : C!Min(some) <= y
<1>1. some \subseteq Nat
  BY ConversationAssumption DEF C!Question
<1> QED
  BY <1>1, LeastNumber DEF C!Min

LEMMA MaxOfQuestions ==
    ASSUME NEW some, some \subseteq C!Question, some # {}
    PROVE  C!Max(some) \in some /\ \A y \in some : C!Max(some) >= y
<1>1. some \subseteq 0..MaxQuestion /\ MaxQuestion \in Nat
  BY ConversationAssumption DEF C!Question
<1> QED
  BY <1>1, GreatestNumber DEF C!Max

-----------------------------------------------------------------------------
(* The conversation. What a reply selects of a menu that was offered.      *)
Offered == {menu \in Menu : C!Valid(menu)}

LEMMA OfferedChoices ==
    ASSUME NEW menu \in Offered
    PROVE  /\ DOMAIN menu \subseteq Nat \ {0} /\ 1 \in DOMAIN menu
           /\ \A i \in DOMAIN menu : /\ menu[i].high \in BOOLEAN
                                     /\ menu[i].index \notin Contextual
                                     /\ menu[i].high => menu[i].label \notin Contextual
<1> DEFINE Choice == [index : Reply \ Contextual, label : Reply, high : BOOLEAN]
<1>1. menu \in Seq(Choice) /\ menu # <<>>
  BY ConversationAssumption DEF Offered
<1>5. \A choice \in Choice : choice.high \in BOOLEAN /\ choice.index \notin Contextual
  OBVIOUS
<1> HIDE DEF Choice
<1>2. DOMAIN menu = 1..Len(menu) /\ Len(menu) \in Nat \ {0}
  BY <1>1
<1>3. \A i \in DOMAIN menu : menu[i] \in Choice
  BY <1>1
<1>4. \A i \in DOMAIN menu : menu[i].high => menu[i].label \notin Contextual
  BY DEF Offered, C!Valid
<1> QED
  BY <1>2, <1>3, <1>4, <1>5

(* What ChoicesAreMeant says of a question that was resolved.              *)
Meant(menu, chosen, text) ==
    LET choice == menu[chosen]
    IN  /\ choice.high => C!Matches(choice, text) /\ text \notin Contextual
        /\ text \in Contextual => \/ \A i \in DOMAIN menu : ~menu[i].high
                                  \/ choice.label = text

LEMMA SelectedIsMeant ==
    ASSUME NEW menu \in Offered, NEW text, C!Selected(menu, text) # 0
    PROVE  /\ C!Selected(menu, text) \in Nat
           /\ Meant(menu, C!Selected(menu, text), text)
<1>1. CASE C!Exact(menu, text) # {}
  <2> DEFINE i == C!Min(C!Exact(menu, text))
  <2>1. C!Exact(menu, text) \subseteq Nat
    BY OfferedChoices DEF C!Exact
  <2>2. i \in C!Exact(menu, text)
    BY <1>1, <2>1, LeastNumber DEF C!Min
  <2>3. i \in DOMAIN menu /\ C!Matches(menu[i], text)
    BY <2>2 DEF C!Exact
  <2>4. C!Selected(menu, text) = i
    BY <1>1 DEF C!Selected
  <2> HIDE DEF i
  <2> QED
    BY <2>1, <2>2, <2>3, <2>4, OfferedChoices DEF Meant, C!Matches
<1>2. CASE C!Exact(menu, text) = {}
  <2>1. C!Selected(menu, text) = 1 /\ ~C!Risky(menu)
    BY <1>2 DEF C!Selected
  <2> QED
    BY <2>1, OfferedChoices DEF Meant, C!Risky
<1> QED
  BY <1>1, <1>2


(* The invariant. Questions are asked in the order of their numbers, so    *)
(* that none was asked after the first that was not.                       *)
Rows == [status : C!Status, chat : Chat \cup {None}, user : User \cup {None}, menu : Offered \cup {<<>>},
         due : BOOLEAN, choice : Nat, said : Reply \cup {None}]

RowOK(row) ==
    /\ row.status = "absent" \/ row.menu \in Offered
    /\ row.status = "resolved" <=> row.choice # 0
    /\ row.status = "resolved" => Meant(row.menu, row.choice, row.said)

AskedInOrder ==
    \A q, r \in C!Question : questions[q].status = "absent" /\ q <= r => questions[r].status = "absent"

LastOfItsChat ==
    \A q, r \in C!Question :
        questions[q].status = "open" /\ questions[r].status # "absent" /\ questions[r].chat = questions[q].chat
            => r <= q

TalkInv ==
    /\ questions \in [C!Question -> Rows]
    /\ \A q \in C!Question : RowOK(questions[q])
    /\ AskedInOrder
    /\ LastOfItsChat

LEMMA AbsentRow == C!Absent \in Rows /\ RowOK(C!Absent)
BY DEF C!Absent, Rows, C!Status, RowOK

LEMMA TalkInvInit == Init => TalkInv
<1> SUFFICES ASSUME Init PROVE TalkInv
  OBVIOUS
<1>1. questions = [q \in C!Question |-> C!Absent]
  BY DEF Init, C!Init
<1>2. C!Absent.status = "absent"
  BY DEF C!Absent
<1> QED
  BY <1>1, <1>2, AbsentRow DEF TalkInv, AskedInOrder, LastOfItsChat

(* A step that asks nothing.                                               *)
LEMMA NothingAsked ==
    ASSUME TalkInv, questions' \in [C!Question -> Rows],
           \A q \in C!Question :
               /\ RowOK(questions'[q])
               /\ questions'[q].status = "absent" <=> questions[q].status = "absent"
               /\ questions'[q].status = "open" => questions[q].status = "open"
               /\ questions'[q].chat = questions[q].chat
    PROVE  TalkInv'
<1>1. AskedInOrder'
  BY DEF TalkInv, AskedInOrder, C!Question
<1>2. LastOfItsChat'
  BY DEF TalkInv, LastOfItsChat
<1>3. (\A q \in C!Question : RowOK(questions[q]))'
  OBVIOUS
<1> QED
  BY <1>1, <1>2, <1>3 DEF TalkInv

LEMMA ExpiredRow ==
    ASSUME NEW row \in Rows, RowOK(row)
    PROVE  /\ C!Expire(row) \in Rows /\ RowOK(C!Expire(row))
           /\ C!Expire(row).status = "absent" <=> row.status = "absent"
           /\ C!Expire(row).status = "open" => row.status = "open"
           /\ C!Expire(row).chat = row.chat
           /\ ~row.due => C!Expire(row) = row
<1>1. CASE row.status = "open" /\ row.due
  <2>1. C!Expire(row) = [row EXCEPT !.status = "expired"]
    BY <1>1 DEF C!Expire
  <2> QED
    BY <1>1, <2>1 DEF Rows, RowOK, C!Status, Meant
<1>2. CASE ~(row.status = "open" /\ row.due)
  BY <1>2 DEF C!Expire
<1> QED
  BY <1>1, <1>2

LEMMA ExpireStaleStep == TalkInv /\ C!ExpireStale => TalkInv'
<1> SUFFICES ASSUME TalkInv, C!ExpireStale PROVE TalkInv'
  OBVIOUS
<1>1. \A q \in C!Question : questions[q] \in Rows /\ RowOK(questions[q])
  BY DEF TalkInv
<1>2. questions' = [q \in C!Question |-> C!Expire(questions[q])]
  BY DEF C!ExpireStale, C!Expired
<1> QED
  BY <1>1, <1>2, ExpiredRow, NothingAsked

LEMMA FallDueStep == ASSUME TalkInv, NEW q \in C!Question, C!FallDue(q) PROVE TalkInv'
<1>1. \A r \in C!Question : questions[r] \in Rows /\ RowOK(questions[r])
  BY DEF TalkInv
<1> DEFINE row == [questions[q] EXCEPT !.due = TRUE]
<1>2. /\ row \in Rows /\ RowOK(row)
      /\ row.status = questions[q].status /\ row.chat = questions[q].chat
  BY <1>1 DEF Rows, RowOK, Meant
<1>3. questions' = [questions EXCEPT ![q] = row]
  BY DEF C!FallDue
<1> HIDE DEF row
<1> QED
  BY <1>1, <1>2, <1>3, NothingAsked DEF TalkInv

LEMMA TryResolveStep ==
    ASSUME TalkInv, NEW u \in User, NEW text \in Reply, C!TryResolve(u, text)
    PROVE  TalkInv'
<1> DEFINE q == C!Max(C!OpenTo(u))
           i == C!Selected(questions[q].menu, text)
<1>1. q \in C!Question /\ questions[q].status = "open"
  <2>1. C!OpenTo(u) # {} /\ C!OpenTo(u) \subseteq C!Question
    BY DEF C!TryResolve, C!OpenTo
  <2>2. q \in C!OpenTo(u)
    BY <2>1, MaxOfQuestions
  <2> QED
    BY <2>2 DEF C!OpenTo
<1>2. questions' = IF questions[q].due \/ i = 0 THEN C!Expired
                   ELSE [C!Expired EXCEPT ![q].status = "resolved", ![q].choice = i, ![q].said = text]
  BY DEF C!TryResolve
<1> HIDE DEF q
<1>3. CASE questions[q].due \/ i = 0
  BY <1>2, <1>3, ExpireStaleStep DEF C!ExpireStale
<1>4. CASE ~questions[q].due /\ i # 0
  <2>1. \A r \in C!Question : questions[r] \in Rows /\ RowOK(questions[r])
    BY DEF TalkInv
  <2> DEFINE row == [questions[q] EXCEPT !.status = "resolved", !.choice = i, !.said = text]
  <2>2. i \in Nat /\ Meant(questions[q].menu, i, text)
    BY <1>1, <1>4, <2>1, SelectedIsMeant DEF RowOK
  <2>3. C!Expired \in [C!Question -> Rows] /\ \A r \in C!Question : C!Expired[r] = C!Expire(questions[r])
    BY <2>1, ExpiredRow DEF C!Expired
  <2>4. C!Expired[q] = questions[q]
    BY <1>1, <1>4, <2>1, <2>3, ExpiredRow
  <2>5. questions' = [C!Expired EXCEPT ![q] = row]
    BY <1>1, <1>2, <1>4, <2>3, <2>4
  <2> HIDE DEF i
  <2>6. row \in Rows /\ RowOK(row) /\ row.status = "resolved" /\ row.chat = questions[q].chat
    BY <1>1, <1>4, <2>1, <2>2 DEF Rows, RowOK, C!Status
  <2> HIDE DEF row
  <2> QED
    BY <1>1, <2>1, <2>3, <2>5, <2>6, ExpiredRow, NothingAsked
<1> QED
  BY <1>3, <1>4


LEMMA AskStep ==
    ASSUME TalkInv, NEW c \in Chat, NEW u \in User, NEW menu \in Menu, C!Ask(c, u, menu)
    PROVE  TalkInv'
<1> DEFINE new == {q \in C!Question : questions[q].status = "absent"}
           n   == C!Min(new)
           row == [C!Absent EXCEPT !.status = "open", !.chat = c, !.user = u, !.menu = menu]
           supersede(old) == IF old.status = "open" /\ old.chat = c
                             THEN [old EXCEPT !.status = "superseded"] ELSE old
<1>1. \A q \in C!Question : questions[q] \in Rows /\ RowOK(questions[q])
  BY DEF TalkInv
<1>2. menu \in Offered /\ new # {}
  BY DEF C!Ask, Offered
<1>3. n \in C!Question /\ questions[n].status = "absent"
      /\ \A q \in C!Question : questions[q].status = "absent" => n <= q
  BY <1>2, MinOfQuestions
<1>4. row \in Rows /\ RowOK(row) /\ row.status = "open" /\ row.chat = c
  BY <1>2, AbsentRow DEF Rows, RowOK, C!Status, C!Absent
<1>5. ASSUME NEW old \in Rows, RowOK(old)
      PROVE  /\ supersede(old) \in Rows /\ RowOK(supersede(old))
             /\ supersede(old).chat = old.chat
             /\ supersede(old).status = "absent" <=> old.status = "absent"
             /\ supersede(old).status = "open" => old.status = "open" /\ old.chat # c
  <2>1. CASE old.status = "open" /\ old.chat = c
    BY <1>5, <2>1 DEF Rows, RowOK, C!Status, Meant
  <2>2. CASE ~(old.status = "open" /\ old.chat = c)
    BY <1>5, <2>2
  <2> QED
    BY <2>1, <2>2
<1>6. questions' = [[q \in C!Question |-> supersede(C!Expired[q])] EXCEPT ![n] = row]
  BY DEF C!Ask
<1> HIDE DEF n, row, supersede
<1>7. /\ questions'[n] = row
      /\ \A q \in C!Question : q # n => questions'[q] = supersede(C!Expire(questions[q]))
      /\ questions' \in [C!Question -> Rows]
  <2>1. \A q \in C!Question : C!Expired[q] = C!Expire(questions[q])
    BY DEF C!Expired
  <2>2. \A q \in C!Question : supersede(C!Expire(questions[q])) \in Rows
    BY <1>1, <1>5, ExpiredRow
  <2> QED
    BY <1>3, <1>4, <1>6, <2>1, <2>2
<1>8. ASSUME NEW q \in C!Question, q # n
      PROVE  /\ RowOK(questions'[q])
             /\ questions'[q].chat = questions[q].chat
             /\ questions'[q].status = "absent" <=> questions[q].status = "absent"
             /\ questions'[q].status = "open" => questions[q].status = "open" /\ questions[q].chat # c
  BY <1>1, <1>5, <1>7, <1>8, ExpiredRow
<1>9. (\A q \in C!Question : RowOK(questions[q]))'
  BY <1>4, <1>7, <1>8
<1>10. \A q \in C!Question : q # n => (questions'[q].status # "absent" <=> q < n)
  BY <1>3, <1>8 DEF TalkInv, AskedInOrder, C!Question
<1>11. AskedInOrder'
  BY <1>3, <1>4, <1>7, <1>10 DEF AskedInOrder, C!Question
<1>12. LastOfItsChat'
  <2> SUFFICES ASSUME NEW q \in C!Question, NEW r \in C!Question,
                      questions'[q].status = "open", questions'[r].status # "absent",
                      questions'[r].chat = questions'[q].chat
               PROVE  r <= q
    BY DEF LastOfItsChat
  <2>1. CASE r = q
    BY <2>1 DEF C!Question
  <2>2. CASE q = n /\ r # n
    BY <1>10, <2>2 DEF C!Question
  <2>3. CASE q # n /\ r = n
    BY <1>4, <1>7, <1>8, <2>3
  <2>4. CASE q # n /\ r # n
    BY <1>8, <2>4 DEF TalkInv, LastOfItsChat
  <2> QED
    BY <2>1, <2>2, <2>3, <2>4
<1> QED
  BY <1>7, <1>9, <1>11, <1>12 DEF TalkInv

(* A high-risk choice is taken by its own number or label only, for any    *)
(* menus offered and whatever is asked, answered and expires meanwhile.    *)
THEOREM ChoicesStayMeant == Spec => []ChoicesAreMeant
<1>1. TalkInv /\ [Next]_vars => TalkInv'
  <2>1. TalkInv /\ C!Next => TalkInv'
    BY ExpireStaleStep, FallDueStep, TryResolveStep, AskStep DEF C!Next
  <2>2. TalkInv /\ UNCHANGED questions => TalkInv'
    BY DEF TalkInv, AskedInOrder, LastOfItsChat
  <2> QED
    BY <2>1, <2>2, Followed
<1>2. TalkInv => ChoicesAreMeant
  BY DEF TalkInv, RowOK, Meant, LastOfItsChat, ChoicesAreMeant, C!ChoicesAreMeant
<1> QED
  BY <1>1, <1>2, TalkInvInit, PTL DEF Spec

-----------------------------------------------------------------------------
(* The tasks. The percentage, whatever is done of however many.            *)
LEMMA Division ==
    ASSUME NEW a \in Nat, NEW b \in Nat \ {0}
    PROVE  a \div b \in Nat /\ a % b \in 0..(b - 1) /\ a = b * (a \div b) + (a % b)
OBVIOUS

LEMMA Products ==
    ASSUME NEW a \in Nat, NEW b \in Nat, NEW c \in Nat, b <= c
    PROVE  a * b \in Nat /\ a * c \in Nat /\ a * b <= a * c
OBVIOUS

LEMMA PercentageIsHonest ==
    ASSUME NEW done \in Nat, NEW open \in Nat, done + open <= 199
    PROVE  LET shown == M!Percentage(done, open)
           IN  /\ (shown = 100) <=> (done > 0 /\ open = 0)
               /\ (shown = 0) <=> (done = 0)
<1> DEFINE n == done + open
           twice == 2 * (100 * done)
           halves == twice \div n
           rest == twice % n
           shown == IF rest = 0 /\ halves % 4 = 1 THEN halves \div 2 ELSE (halves + 1) \div 2
<1>1. CASE n = 0
  BY <1>1 DEF M!Percentage
<1>2. CASE n # 0
  <2>1. M!Percentage(done, open) = shown
    BY <1>2 DEF M!Percentage, M!HalfEven
  <2>2. halves \in Nat /\ rest \in 0..(n - 1) /\ twice = n * halves + rest
    <3>1. twice \in Nat /\ n \in Nat \ {0}
      BY <1>2
    <3> HIDE DEF twice, n
    <3> QED
      BY <3>1, Division
  <2>3. twice = 200 * done /\ n \in 1..199 /\ done \in 0..n
    BY <1>2
  <2>4. CASE done = 0
    <3>1. n * halves = 0
      BY <2>2, <2>3, <2>4
    <3>2. halves = 0
      BY <2>2, <2>3, <3>1
    <3>3. shown = 0
      <4> HIDE DEF halves, rest
      <4> QED
        BY <3>2
    <3> QED
      BY <2>1, <2>4, <3>3
  <2>5. CASE done = n
    <3>1. halves < 201
      BY <2>2, <2>3, <2>5, Products
    <3>2. halves > 199
      BY <2>2, <2>3, <2>5, Products
    <3>3. halves = 200
      BY <2>2, <3>1, <3>2
    <3>4. shown = 100
      <4> HIDE DEF halves, rest
      <4> QED
        BY <3>3
    <3> QED
      BY <1>2, <2>1, <2>5, <3>4
  <2>6. CASE done > 0 /\ done < n
    <3>1. halves <= 198
      <4>1. n * halves < n * 199
        BY <2>2, <2>3, <2>6
      <4> QED
        BY <2>2, <2>3, <4>1, Products
    <3>2. halves >= 1
      <4>1. n * halves # 0
        BY <2>2, <2>3, <2>6
      <4> QED
        BY <2>2, <2>3, <4>1
    <3>3. halves = 1 => rest # 0
      BY <2>2, <2>3, <2>6
    <3>4. shown \in 1..99
      <4> HIDE DEF halves, rest
      <4> QED
        BY <2>2, <3>1, <3>2, <3>3
    <3> QED
      BY <2>1, <2>3, <2>6, <3>4
  <2> QED
    BY <2>3, <2>4, <2>5, <2>6
<1> QED
  BY <1>1, <1>2


(* The task recommended.                                                   *)
Entries == [status : M!Status \cup {"absent"}, had : BOOLEAN, priority : Nat, title : Title \cup {""}]

MemoryInv ==
    /\ tasks \in [Tasks -> Entries]
    /\ \A p \in Process : clerk[p] # M!Idle => clerk[p].task \in Tasks /\ clerk[p].status \in M!Status
    /\ clerk \in [Process -> [task : Nat, status : M!Status \cup {"absent"}]]
    /\ \A t \in Tasks : tasks[t].had <=> (tasks[t].status = "done")

LEMMA MemoryInvInit == Init => MemoryInv
<1> SUFFICES ASSUME Init PROVE MemoryInv
  OBVIOUS
<1>1. /\ tasks = [t \in Tasks |-> [status |-> "absent", had |-> FALSE, priority |-> 0, title |-> ""]]
      /\ clerk = [p \in Process |-> M!Idle]
  BY DEF Init, M!Init
<1>2. [status |-> "absent", had |-> FALSE, priority |-> 0, title |-> ""] \in Entries
  BY DEF Entries
<1>3. M!Idle \in [task : Nat, status : M!Status \cup {"absent"}]
  BY DEF M!Idle
<1> QED
  BY <1>1, <1>2, <1>3 DEF MemoryInv

LEMMA CreateTaskStep ==
    ASSUME MemoryInv, NEW t \in Tasks, NEW title \in Title, NEW priority \in Priorities,
           M!CreateTask(t, title, priority)
    PROVE  MemoryInv'
<1> DEFINE entry == [status |-> "todo", had |-> FALSE, priority |-> priority, title |-> title]
<1>1. entry \in Entries
  BY MemoryAssumption DEF Entries, M!Status
<1>2. entry.had = FALSE /\ entry.status # "done"
  OBVIOUS
<1>3. tasks' = [tasks EXCEPT ![t] = entry] /\ UNCHANGED clerk
  BY DEF M!CreateTask
<1> HIDE DEF entry
<1> QED
  BY <1>1, <1>2, <1>3 DEF MemoryInv

LEMMA ReadTaskStep ==
    ASSUME MemoryInv, NEW p \in Process, NEW name, NEW status \in M!Status, M!ReadTask(p, name, status)
    PROVE  MemoryInv'
<1>1. PICK t \in M!Named(name) : clerk' = [clerk EXCEPT ![p] = [task |-> t, status |-> status]]
  BY DEF M!ReadTask
<1>2. t \in Tasks
  BY DEF M!Named
<1>3. t \in Nat
  BY <1>2, MemoryAssumption
<1>4. UNCHANGED tasks
  BY DEF M!ReadTask
<1> QED
  BY <1>1, <1>2, <1>3, <1>4 DEF MemoryInv

LEMMA UpdateTaskStep ==
    ASSUME MemoryInv, NEW p \in Process, M!UpdateTask(p)
    PROVE  MemoryInv'
<1> DEFINE t == clerk[p].task
           entry == [tasks[t] EXCEPT !.status = clerk[p].status, !.had = clerk[p].status = "done"]
<1>1. t \in Tasks /\ clerk[p].status \in M!Status /\ tasks[t] \in Entries
  BY DEF M!UpdateTask, MemoryInv
<1>2. entry \in Entries /\ (entry.had <=> entry.status = "done")
  BY <1>1 DEF Entries
<1>3. tasks' = [tasks EXCEPT ![t] = entry]
  BY <1>1 DEF M!UpdateTask, MemoryInv
<1>4. clerk' = [clerk EXCEPT ![p] = M!Idle] /\ M!Idle \in [task : Nat, status : M!Status \cup {"absent"}]
  BY DEF M!UpdateTask, M!Idle
<1> HIDE DEF entry, t
<1> QED
  BY <1>1, <1>2, <1>3, <1>4 DEF MemoryInv

LEMMA FirstTask ==
    ASSUME MemoryInv, NEW some, some \subseteq Tasks, some # {}
    PROVE  /\ M!First(some) \in some
           /\ \A t \in some \ {M!First(some)} : ~M!Before(t, M!First(some))
<1>1. some \subseteq Nat /\ \A t \in some : tasks[t].priority \in Nat
  BY MemoryAssumption DEF MemoryInv, Entries
<1> DEFINE ranks == {tasks[t].priority : t \in some}
<1>2. PICK rank \in ranks : \A other \in ranks : rank <= other
  <2>1. ranks \subseteq Nat /\ ranks # {}
    BY <1>1
  <2> QED
    BY <2>1, LeastNumber, Zenon
<1> DEFINE best == {t \in some : tasks[t].priority = rank}
<1>3. PICK t \in best : \A u \in best : t <= u
  <2>1. best \subseteq Nat /\ best # {}
    BY <1>1, <1>2
  <2> QED
    BY <2>1, LeastNumber, Zenon
<1>4. ASSUME NEW u \in some \ {t} PROVE M!Before(t, u)
  <2>1. rank <= tasks[u].priority /\ tasks[t].priority = rank /\ t \in some
    BY <1>2, <1>3
  <2>2. tasks[u].priority = rank => t <= u
    BY <1>3
  <2>3. t \in Nat /\ u \in Nat /\ tasks[t].priority \in Nat /\ tasks[u].priority \in Nat
    BY <1>1, <2>1
  <2> QED
    BY <2>1, <2>2, <2>3 DEF M!Before
<1>5. M!First(some) \in some /\ \A u \in some \ {M!First(some)} : M!Before(M!First(some), u)
  BY <1>3, <1>4 DEF M!First
<1> DEFINE f == M!First(some)
<1>6. ASSUME NEW u \in some \ {f} PROVE ~M!Before(u, f)
  <2>1. M!Before(f, u) /\ f \in some
    BY <1>5
  <2>2. u \in Nat /\ f \in Nat /\ tasks[u].priority \in Nat /\ tasks[f].priority \in Nat
    BY <1>1, <2>1
  <2> HIDE DEF f
  <2> QED
    BY <2>1, <2>2 DEF M!Before
<1> QED
  BY <1>5, <1>6

LEMMA RecommendedIsFirst ==
    ASSUME MemoryInv
    PROVE  LET r == M!Recommended
           IN  /\ r.from = "session" <=> latest.next # ""
               /\ r.from = "nothing" <=> latest.next = "" /\ M!With("doing") \cup M!With("todo") = {}
               /\ r.from = "todo" => M!With("doing") = {}
               /\ r.from \in {"doing", "todo"} =>
                     /\ r.task \in M!With(r.from)
                     /\ \A t \in M!With(r.from) \ {r.task} : ~M!Before(t, r.task)
<1> DEFINE r == M!Recommended
<1>1. \A status : M!With(status) \subseteq Tasks
  BY DEF M!With
<1>2. CASE latest.next # ""
  <2>1. r = [from |-> "session", task |-> 0]
    BY <1>2 DEF M!Recommended
  <2> HIDE DEF r
  <2> QED
    BY <1>2, <2>1 DEF r
<1>3. CASE latest.next = "" /\ M!With("doing") # {}
  <2>1. r = [from |-> "doing", task |-> M!First(M!With("doing"))]
    BY <1>3 DEF M!Recommended
  <2>2. r.from = "doing" /\ r.task = M!First(M!With("doing"))
    BY <2>1
  <2> HIDE DEF r
  <2>3. r.task \in M!With("doing") /\ \A t \in M!With("doing") \ {r.task} : ~M!Before(t, r.task)
    BY <1>1, <1>3, <2>2, FirstTask
  <2> QED
    BY <1>3, <2>2, <2>3 DEF r
<1>4. CASE latest.next = "" /\ M!With("doing") = {} /\ M!With("todo") # {}
  <2>1. r = [from |-> "todo", task |-> M!First(M!With("todo"))]
    BY <1>4 DEF M!Recommended
  <2>2. r.from = "todo" /\ r.task = M!First(M!With("todo"))
    BY <2>1
  <2> HIDE DEF r
  <2>3. r.task \in M!With("todo") /\ \A t \in M!With("todo") \ {r.task} : ~M!Before(t, r.task)
    BY <1>1, <1>4, <2>2, FirstTask
  <2> QED
    BY <1>4, <2>2, <2>3 DEF r
<1>5. CASE latest.next = "" /\ M!With("doing") = {} /\ M!With("todo") = {}
  <2>1. r = [from |-> "nothing", task |-> 0]
    BY <1>5 DEF M!Recommended
  <2> HIDE DEF r
  <2> QED
    BY <1>5, <2>1 DEF r
<1> QED
  BY <1>2, <1>3, <1>4, <1>5

(* Whatever two processes write over each other, completions and progress  *)
(* say what is so, and what is recommended is the next action of the       *)
(* latest session or else the first task under way, or to do, for any      *)
(* tasks, priorities and sessions.                                         *)
THEOREM ProgressStaysHonest == Spec => []ProgressIsHonest
<1>1. MemoryInv /\ [Next]_vars => MemoryInv'
  <2>1. MemoryInv /\ M!Next => MemoryInv'
    <3>1. ASSUME NEW started, NEW next, M!CreateSession(started, next) PROVE UNCHANGED <<tasks, clerk>>
      BY <3>1 DEF M!CreateSession
    <3>2. MemoryInv /\ UNCHANGED <<tasks, clerk>> => MemoryInv'
      BY DEF MemoryInv
    <3> QED
      BY <3>1, <3>2, CreateTaskStep, ReadTaskStep, UpdateTaskStep DEF M!Next
  <2>2. MemoryInv /\ UNCHANGED memoryVars => MemoryInv'
    BY DEF MemoryInv, memoryVars
  <2> QED
    BY <2>1, <2>2, Followed
<1>2. MemoryInv => ProgressIsHonest
  <2> SUFFICES ASSUME MemoryInv PROVE M!ProgressIsHonest
    BY DEF ProgressIsHonest
  <2>1. \A s \in SUBSET Tasks : M!Cardinality(s) \in Nat
    <3>1. \A s : M!Cardinality(s) = Cardinality(s)
      BY DEF M!Cardinality, Cardinality
    <3> QED
      BY <3>1, MemoryAssumption, FS_Subset, FS_CardinalityType
  <2>2. M!With("done") \in SUBSET Tasks /\ M!With("todo") \cup M!With("doing") \in SUBSET Tasks
    BY DEF M!With
  <2>3. ASSUME NEW more \in Others, NEW left \in Others
        PROVE  LET done  == M!Cardinality(M!With("done")) + more
                   open  == M!Cardinality(M!With("todo") \cup M!With("doing")) + left
                   shown == M!Percentage(done, open)
               IN  done + open <= 199 => /\ (shown = 100) <=> (done > 0 /\ open = 0)
                                         /\ (shown = 0) <=> (done = 0)
    <3>1. more \in Nat /\ left \in Nat
      BY MemoryAssumption
    <3> QED
      BY <2>1, <2>2, <3>1, PercentageIsHonest
  <2>4. \A t \in Tasks : tasks[t].had <=> (tasks[t].status = "done")
    BY DEF MemoryInv
  <2> QED
    BY <2>3, <2>4, RecommendedIsFirst DEF M!ProgressIsHonest
<1> QED
  BY <1>1, <1>2, MemoryInvInit, PTL DEF Spec

-----------------------------------------------------------------------------
(* Reads. What a page adds.                                                *)
LEMMA SameCardinality == \A s : R!Cardinality(s) = Cardinality(s)
BY DEF R!Cardinality, Cardinality

Pages == R!SeqOf(Entry \cup {Hidden}, Limit)

LEMMA ThePage ==
    ASSUME NEW page \in Pages
    PROVE  /\ Len(page) \in 0..Limit /\ DOMAIN page = 1..Len(page)
           /\ page \in [1..Len(page) -> Entry \cup {Hidden}]
           /\ R!Shown(page) = {page[i] : i \in 1..Len(page)} \ {Hidden}
<1>1. PICK n \in 0..Limit : page \in [1..n -> Entry \cup {Hidden}]
  BY DEF Pages, R!SeqOf
<1>2. n \in Nat /\ DOMAIN page = 1..n
  BY <1>1, ReadsAssumption
<1>3. Len(page) = n
  BY <1>1, <1>2
<1> QED
  BY <1>1, <1>2, <1>3 DEF R!Shown, R!ToSet

LEMMA EarlierIsSmall ==
    ASSUME NEW page \in Pages, NEW j \in 1..(Len(page) + 1)
    PROVE  /\ IsFiniteSet(R!Earlier(page, j)) /\ Cardinality(R!Earlier(page, j)) <= j - 1
           /\ R!Earlier(page, j) \subseteq R!Shown(page)
<1> DEFINE before == {page[i] : i \in 1..(j - 1)}
           f == [i \in 1..(j - 1) |-> page[i]]
<1>1. Len(page) \in Nat /\ j - 1 \in Nat /\ 1..(j - 1) \subseteq 1..Len(page)
  BY ThePage
<1>2. IsFiniteSet(1..(j - 1)) /\ Cardinality(1..(j - 1)) = j - 1
  <2> DEFINE k == j - 1
  <2>1. k \in Nat
    BY <1>1
  <2> HIDE DEF k
  <2>2. IsFiniteSet(1..k) /\ Cardinality(1..k) = IF 1 > k THEN 0 ELSE k - 1 + 1
    BY <2>1, FS_Interval
  <2>3. IsFiniteSet(1..k) /\ Cardinality(1..k) = k
    BY <2>1, <2>2
  <2> QED
    BY <2>3 DEF k
<1>3. f \in Surjection(1..(j - 1), before)
  BY DEF Surjection
<1>4. IsFiniteSet(before) /\ Cardinality(before) <= j - 1
  BY <1>2, <1>3, FS_Surjection
<1>5. R!Earlier(page, j) \in SUBSET before
  BY DEF R!Earlier
<1>6. R!Earlier(page, j) \subseteq R!Shown(page)
  BY <1>1, ThePage DEF R!Earlier
<1> HIDE DEF before, f
<1>7. /\ IsFiniteSet(R!Earlier(page, j))
      /\ Cardinality(R!Earlier(page, j)) <= Cardinality(before)
  BY <1>4, <1>5, FS_Subset
<1>8. Cardinality(R!Earlier(page, j)) \in Nat /\ Cardinality(before) \in Nat
  BY <1>4, <1>7, FS_CardinalityType
<1> QED
  BY <1>1, <1>4, <1>6, <1>7, <1>8

LEMMA ShownIsSmall ==
    ASSUME NEW page \in Pages
    PROVE  IsFiniteSet(R!Shown(page)) /\ Cardinality(R!Shown(page)) <= Len(page)
<1>1. Len(page) \in Nat /\ Len(page) + 1 \in 1..(Len(page) + 1) /\ (Len(page) + 1) - 1 = Len(page)
  BY ThePage
<1>2. R!Shown(page) = R!Earlier(page, Len(page) + 1)
  BY <1>1, ThePage DEF R!Earlier
<1> QED
  BY <1>1, <1>2, EarlierIsSmall

(* The entries of the page that are taken.                                 *)
Taken(found, page) == {j \in DOMAIN page : page[j] # Hidden /\ ~R!Full(found \cup R!Earlier(page, j))}

LEMMA TakeIs ==
    ASSUME NEW found, NEW page
    PROVE  R!Take(found, page) = found \cup {page[j] : j \in Taken(found, page)}
BY DEF R!Take, Taken

LEMMA TakeIsBounded ==
    ASSUME NEW page \in Pages, NEW found, IsFiniteSet(found), Cardinality(found) <= Limit
    PROVE  /\ found \subseteq R!Take(found, page)
           /\ R!Take(found, page) \subseteq found \cup R!Shown(page)
           /\ IsFiniteSet(R!Take(found, page)) /\ Cardinality(R!Take(found, page)) <= Limit
<1> DEFINE taken == Taken(found, page)
           more  == R!Take(found, page)
<1>1. more = found \cup {page[j] : j \in taken} /\ taken \subseteq 1..Len(page) /\ Len(page) \in Nat
  <2>1. more = found \cup {page[j] : j \in taken}
    BY TakeIs
  <2>2. taken \subseteq 1..Len(page) /\ Len(page) \in Nat
    BY ThePage DEF Taken
  <2> QED
    BY <2>1, <2>2
<1> HIDE DEF more, taken
<1>2. found \subseteq more /\ more \subseteq found \cup R!Shown(page)
  BY <1>1, ThePage DEF Taken, taken
<1>3. CASE taken = {}
  BY <1>1, <1>2, <1>3 DEF more
<1>4. CASE taken # {}
  <2>1. taken \subseteq 0..Len(page)
    BY <1>1
  <2>2. PICK last \in taken : \A j \in taken : last >= j
    BY <1>1, <1>4, <2>1, GreatestNumber, Zenon
  <2> DEFINE before == found \cup R!Earlier(page, last)
  <2>3. last \in 1..(Len(page) + 1) /\ ~R!Full(before)
    BY <1>1, <2>2 DEF Taken, taken
  <2>4. IsFiniteSet(before)
    BY <2>3, EarlierIsSmall, FS_Union
  <2>5. Cardinality(before) \in Nat /\ Cardinality(before) < Limit
    BY <2>3, <2>4, FS_CardinalityType, SameCardinality, ReadsAssumption DEF R!Full
  <2>6. more \subseteq before \cup {page[last]}
    <3> SUFFICES ASSUME NEW j \in taken PROVE page[j] \in before \cup {page[last]}
      BY <1>1
    <3>1. j \in Nat /\ last \in Nat /\ j >= 1 /\ j <= last /\ page[j] # Hidden
      BY <1>1, <2>2 DEF Taken, taken
    <3>2. j = last \/ j \in 1..(last - 1)
      BY <3>1
    <3> QED
      BY <3>1, <3>2 DEF R!Earlier
  <2>7. /\ IsFiniteSet(before \cup {page[last]})
        /\ Cardinality(before \cup {page[last]}) <= Cardinality(before) + 1
    <3> HIDE DEF before
    <3>1. /\ IsFiniteSet(before \cup {page[last]})
          /\ Cardinality(before \cup {page[last]}) =
                IF page[last] \in before THEN Cardinality(before) ELSE Cardinality(before) + 1
      BY <2>4, FS_AddElement
    <3> QED
      BY <2>5, <3>1
  <2> HIDE DEF before
  <2>8. IsFiniteSet(more) /\ Cardinality(more) <= Cardinality(before \cup {page[last]})
    BY <2>6, <2>7, FS_Subset
  <2>9. Cardinality(more) \in Nat /\ Cardinality(before \cup {page[last]}) \in Nat
    BY <2>7, <2>8, FS_CardinalityType
  <2>10. Cardinality(more) <= Limit
    BY <2>5, <2>7, <2>8, <2>9, ReadsAssumption
  <2> QED
    BY <1>2, <2>8, <2>10 DEF more
<1> QED
  BY <1>3, <1>4


(* Unless it is full, what was taken is all that was shown; and it is all, *)
(* full or not, of a page no larger than the room there was.               *)
LEMMA TakeIsAll ==
    ASSUME NEW page \in Pages, NEW found, IsFiniteSet(found), Cardinality(found) <= Limit,
           \/ ~R!Full(R!Take(found, page))
           \/ Len(page) <= Limit - Cardinality(found)
    PROVE  R!Take(found, page) = found \cup R!Shown(page)
<1> DEFINE more == R!Take(found, page)
           left == {j \in 1..Len(page) : page[j] # Hidden /\ page[j] \notin more}
<1>1. SUFFICES left = {}
  BY TakeIsBounded, ThePage
<1>2. SUFFICES ASSUME left # {} PROVE FALSE
  OBVIOUS
<1>3. left \subseteq Nat /\ Len(page) \in Nat
  BY ThePage
<1>4. PICK j \in left : \A k \in left : j <= k
  BY <1>2, <1>3, LeastNumber, Zenon
<1>5. j \in 1..Len(page) /\ j \in 1..(Len(page) + 1) /\ page[j] # Hidden /\ page[j] \notin more
  BY <1>3, <1>4
<1>6. R!Earlier(page, j) \subseteq more
  <2> SUFFICES ASSUME NEW i \in 1..(j - 1), page[i] # Hidden PROVE page[i] \in more
    BY DEF R!Earlier
  <2>1. i \in 1..Len(page) /\ ~(j <= i)
    BY <1>3, <1>5
  <2> QED
    BY <1>4, <2>1
<1>7. R!Full(found \cup R!Earlier(page, j))
  <2>1. j \notin Taken(found, page)
    <3>1. more = found \cup {page[k] : k \in Taken(found, page)}
      BY TakeIs
    <3> HIDE DEF more
    <3> QED
      BY <1>5, <3>1
  <2> QED
    BY <1>5, <2>1, ThePage DEF Taken
<1> DEFINE before == found \cup R!Earlier(page, j)
<1>8. Cardinality(before) >= Limit
  BY <1>7, SameCardinality DEF R!Full
<1>9. IsFiniteSet(before) /\ Cardinality(before) \in Nat
  BY <1>5, EarlierIsSmall, FS_Union, FS_CardinalityType
<1>10. CASE ~R!Full(more)
  <2>1. IsFiniteSet(more) /\ before \in SUBSET more
    BY <1>6, TakeIsBounded
  <2> HIDE DEF before, more
  <2>2. Cardinality(before) <= Cardinality(more) /\ Cardinality(more) \in Nat
    BY <2>1, FS_Subset, FS_CardinalityType
  <2> QED
    BY <1>8, <1>9, <1>10, <2>2, SameCardinality, ReadsAssumption DEF R!Full
<1>11. CASE Len(page) <= Limit - Cardinality(found)
  <2> DEFINE e == R!Earlier(page, j)
  <2>1. IsFiniteSet(e) /\ Cardinality(e) <= j - 1
    BY <1>5, EarlierIsSmall
  <2>2. Cardinality(found) \in Nat /\ Cardinality(e) \in Nat
    BY <2>1, FS_CardinalityType
  <2>3. /\ Cardinality(before) = Cardinality(found) + Cardinality(e) - Cardinality(found \cap e)
        /\ Cardinality(found \cap e) \in Nat
    <3>1. IsFiniteSet(found \cap e)
      BY FS_Subset
    <3> HIDE DEF e
    <3> QED
      BY <2>1, <3>1, FS_Union, FS_CardinalityType DEF e
  <2> HIDE DEF before, e
  <2> QED
    BY <1>3, <1>5, <1>8, <1>9, <1>11, <2>1, <2>2, <2>3, ReadsAssumption
<1> QED
  BY <1>10, <1>11


(* The read under way. While it is paging it has room, and it has called   *)
(* once for every token it has seen, its first call apart.                 *)
Results == [service : R!Service \cup {"none"}, place : {"idle", "paging", "logging", "done", "failed"},
            token : Page \cup {None}, seen : SUBSET Page, found : SUBSET Entry, listed : SUBSET Entry,
            rest : BOOLEAN, calls : Nat, more : BOOLEAN, log : {"none", "success", "failure"}]

Counted(r) ==
    /\ r.service = "calendar" => \/ r.token = None /\ r.calls = 0 /\ r.seen = {}
                                 \/ r.token \in Page \ (r.seen \cup {None}) /\ r.calls = Cardinality(r.seen) + 1
    /\ r.service = "drive" => r.calls = Cardinality(r.seen)
    /\ r.service \notin {"calendar", "drive"} => r.calls = 0 /\ r.found = {}

Held(r) ==
    /\ IsFiniteSet(r.found) /\ Cardinality(r.found) <= Limit
    /\ r.found \subseteq r.listed
    /\ r.found = r.listed \/ R!Full(r.found)
    /\ r.service # "drive" => r.found = r.listed

ResultOK(r) ==
    /\ r \in Results /\ Held(r)
    /\ r.place = "paging" => ~R!Full(r.found) /\ Counted(r) /\ ~r.more
    /\ r.place # "paging" => r.calls <= Cardinality(Page) + 1
    /\ r.place # "paging" /\ r.service = "drive" /\ r.more => R!Full(r.found)
    /\ r.place \in {"logging", "done"} => r.more = r.rest
    /\ r.place = "done" /\ r.service = "calendar" => r.log = "success"

CopyInv ==
    /\ copy \in [place : {"idle", "writing"}, size : Nat, got : 0..MaxSize]
    /\ \A f \in disk.finals : f.got = f.size /\ f.size <= MaxSize
    /\ disk \in [begun : Nat, died : Nat, temps : Nat, finals : SUBSET [size : Nat, got : Nat]]
    /\ disk.temps = disk.died + (IF copy = R!NoCopy THEN 0 ELSE 1)

ReadInv == ResultOK(read) /\ CopyInv

LEMMA PagesAreFinite ==
    /\ Cardinality(Page) \in Nat
    /\ \A some \in SUBSET Page :
           IsFiniteSet(some) /\ Cardinality(some) \in Nat /\ Cardinality(some) <= Cardinality(Page)
BY ReadsAssumption, FS_Subset, FS_CardinalityType

LEMMA EmptyIsNotFull == ~R!Full({}) /\ IsFiniteSet({}) /\ Cardinality({}) = 0
BY SameCardinality, FS_EmptySet, ReadsAssumption DEF R!Full

LEMMA NoReadOK == ResultOK(R!NoRead)
<1>1. R!NoRead \in Results
  BY DEF R!NoRead, Results, R!Service
<1> QED
  BY <1>1, EmptyIsNotFull, PagesAreFinite, ReadsAssumption DEF R!NoRead, ResultOK, Held

LEMMA BeginStep ==
    ASSUME NEW service \in R!Service, NEW from \in Page \cup {None}, R!Begin(service, from)
    PROVE  ResultOK(read')
<1>1. read' = [R!NoRead EXCEPT !.service = service, !.place = "paging", !.token = from]
  BY DEF R!Begin
<1>2. /\ read' \in Results
      /\ read'.service = service /\ read'.token = from /\ read'.place = "paging"
      /\ read'.seen = {} /\ read'.found = {} /\ read'.listed = {} /\ read'.calls = 0 /\ ~read'.more
  BY <1>1 DEF R!NoRead, Results, R!Service
<1>3. service = "calendar" => from = None
  BY DEF R!Begin
<1> QED
  BY <1>2, <1>3, EmptyIsNotFull, ReadsAssumption DEF ResultOK, Held, Counted

(* What a page of any service leaves.                                      *)
LEMMA ListedOK ==
    ASSUME ResultOK(read), read.place = "paging", NEW page \in Pages, Len(page) <= R!PageSize(read),
           NEW next
    PROVE  LET r == R!Listed(page, next)
           IN  /\ r \in Results /\ Held(r)
               /\ r.calls = read.calls + 1
               /\ r.service = read.service /\ r.place = "paging" /\ r.token = read.token
               /\ r.seen = read.seen /\ r.more = read.more /\ r.log = read.log
               /\ r.rest = (next # None)
<1> DEFINE f == R!Take(read.found, page)
           l == read.listed \cup R!Shown(page)
           r == R!Listed(page, next)
<1>1. IsFiniteSet(read.found) /\ Cardinality(read.found) <= Limit /\ read.found = read.listed
  BY DEF ResultOK, Held
<1>2. f \subseteq l /\ IsFiniteSet(f) /\ Cardinality(f) <= Limit
  BY <1>1, TakeIsBounded
<1>3. f = l \/ R!Full(f)
  BY <1>1, TakeIsAll
<1>4. read.service # "drive" => f = l
  <2> SUFFICES ASSUME read.service # "drive" PROVE f = l
    OBVIOUS
  <2>1. Len(page) <= Limit - Cardinality(read.found)
    <3>1. CASE read.service = "calendar"
      BY <3>1, SameCardinality DEF R!PageSize
    <3>2. CASE read.service # "calendar"
      <4>1. read.found = {} /\ Len(page) <= Limit /\ Len(page) \in Nat
        BY <3>2, ThePage DEF ResultOK, Counted, R!PageSize
      <4> QED
        BY <4>1, EmptyIsNotFull, ReadsAssumption
    <3> QED
      BY <3>1, <3>2
  <2> QED
    BY <1>1, <2>1, TakeIsAll
<1>5. f \in SUBSET Entry /\ l \in SUBSET Entry
  <2>1. R!Shown(page) \subseteq Entry
    BY ThePage
  <2> QED
    BY <1>2, <2>1 DEF ResultOK, Results
<1> HIDE DEF f, l
<1>6. /\ r = [read EXCEPT !.found = f, !.listed = l, !.calls = @ + 1, !.rest = next # None]
      /\ read \in Results /\ read.calls \in Nat
  BY DEF R!Listed, f, l, ResultOK, Results
<1>7. /\ r \in Results /\ r.found = f /\ r.listed = l /\ r.calls = read.calls + 1
      /\ r.service = read.service /\ r.place = "paging" /\ r.token = read.token
      /\ r.seen = read.seen /\ r.more = read.more /\ r.log = read.log
      /\ r.rest = (next # None)
  <2> DEFINE c == read.calls + 1
             left == next # None
  <2>5. c \in Nat /\ left \in BOOLEAN /\ r = [read EXCEPT !.found = f, !.listed = l, !.calls = c, !.rest = left]
    BY <1>6
  <2> HIDE DEF c, r, left
  <2>1. r \in Results
    BY <1>5, <1>6, <2>5 DEF Results
  <2>2. r.found = f /\ r.listed = l /\ r.calls = read.calls + 1
    BY <1>6, <2>5 DEF Results, c
  <2>3. r.service = read.service /\ r.place = read.place /\ r.token = read.token
    BY <1>6, <2>5 DEF Results
  <2>4. r.seen = read.seen /\ r.more = read.more /\ r.log = read.log
    BY <1>6, <2>5 DEF Results
  <2>6. r.rest = left
    BY <1>6, <2>5 DEF Results
  <2> QED
    BY <2>1, <2>2, <2>3, <2>4, <2>6 DEF left
<1> HIDE DEF r
<1>8. Held(r)
  BY <1>2, <1>3, <1>4, <1>7 DEF Held
<1> QED
  BY <1>7, <1>8 DEF r


LEMMA StopOK ==
    ASSUME NEW r \in Results, Held(r), r.calls <= Cardinality(Page) + 1,
           NEW more \in BOOLEAN, more = r.rest, r.service = "drive" /\ more => R!Full(r.found)
    PROVE  ResultOK(R!Stop(r, more))
<1> DEFINE new == R!Stop(r, more)
<1>1. new = [r EXCEPT !.place = "logging", !.more = more]
  BY DEF R!Stop
<1>2. new \in Results /\ new.place = "logging" /\ new.more = more /\ new.rest = r.rest
  BY <1>1 DEF Results
<1>3. new.service = r.service /\ new.found = r.found /\ new.listed = r.listed /\ new.calls = r.calls
  BY <1>1 DEF Results
<1> HIDE DEF new
<1>4. ResultOK(new)
  BY <1>2, <1>3 DEF ResultOK, Held
<1> QED
  BY <1>4 DEF new

(* The calendar asks with each token once.                                 *)
LEMMA CalendarPageStep ==
    ASSUME ResultOK(read), NEW page \in Pages, NEW next \in Page \cup {None}, Len(page) <= R!PageSize(read),
           R!CalendarPage(page, next)
    PROVE  ResultOK(read')
<1> DEFINE b == R!Listed(page, next)
           s == read.seen \cup ({read.token} \ {None})
           r == [b EXCEPT !.seen = @ \cup ({read.token} \ {None})]
<1>1. read.service = "calendar" /\ read.place = "paging"
  BY DEF R!CalendarPage
<1>2. /\ b \in Results /\ Held(b) /\ b.calls = read.calls + 1 /\ b.service = "calendar" /\ b.place = "paging"
      /\ b.token = read.token /\ b.seen = read.seen /\ b.more = read.more /\ b.rest = (next # None)
  BY <1>1, ListedOK
<1>3. read' = IF R!Full(r.found) \/ next = None THEN R!Stop(r, next # None)
              ELSE IF next \in r.seen THEN R!Stop(r, TRUE)
              ELSE [r EXCEPT !.token = next]
  BY DEF R!CalendarPage
<1>4. read.seen \in SUBSET Page /\ s \in SUBSET Page
  BY DEF ResultOK, Results
<1>5. Cardinality(s) = read.calls
  <2>1. CASE read.token = None /\ read.calls = 0 /\ read.seen = {}
    BY <2>1, EmptyIsNotFull
  <2>2. CASE read.token \in Page \ (read.seen \cup {None}) /\ read.calls = Cardinality(read.seen) + 1
    <3>1. s = read.seen \cup {read.token} /\ read.token \notin read.seen
      BY <2>2
    <3> HIDE DEF s
    <3>2. Cardinality(s) = Cardinality(read.seen) + 1
      BY <1>4, <3>1, PagesAreFinite, FS_AddElement
    <3> QED
      BY <2>2, <3>2
  <2> QED
    BY <1>1, <2>1, <2>2 DEF ResultOK, Counted
<1> HIDE DEF b, s
<1>6. r = [b EXCEPT !.seen = s]
  BY <1>2 DEF s
<1> HIDE DEF r
<1>7. r \in Results /\ r.seen = s /\ r.place = "paging" /\ r.more = read.more /\ r.calls = read.calls + 1
  BY <1>2, <1>4, <1>6 DEF Results
<1>8. r.service = "calendar" /\ r.found = b.found /\ r.listed = b.listed /\ r.rest = b.rest
  BY <1>2, <1>6 DEF Results
<1>9. Held(r)
  BY <1>2, <1>8 DEF Held
<1>10. r.calls = Cardinality(s) + 1 /\ r.calls <= Cardinality(Page) + 1
  BY <1>4, <1>5, <1>7, PagesAreFinite
<1>11. CASE R!Full(r.found) \/ next = None \/ next \in r.seen
  <2>1. \E more \in BOOLEAN : read' = R!Stop(r, more) /\ more = r.rest
    BY <1>2, <1>3, <1>8, <1>11
  <2> QED
    BY <1>7, <1>8, <1>9, <1>10, <2>1, StopOK
<1>12. CASE ~R!Full(r.found) /\ next # None /\ next \notin r.seen
  <2>1. read' = [r EXCEPT !.token = next]
    BY <1>3, <1>12
  <2>2. read' \in Results /\ read'.token = next /\ read'.seen = s /\ read'.place = "paging"
    BY <1>7, <2>1 DEF Results
  <2>3. read'.calls = r.calls /\ read'.service = "calendar" /\ read'.found = r.found /\ read'.listed = r.listed
        /\ read'.more = r.more
    BY <1>7, <1>8, <2>1 DEF Results
  <2>4. Held(read') /\ Counted(read')
    BY <1>7, <1>8, <1>9, <1>10, <1>12, <2>2, <2>3 DEF Held, Counted
  <2> QED
    BY <1>1, <1>7, <1>12, <2>2, <2>3, <2>4 DEF ResultOK
<1> QED
  BY <1>11, <1>12

(* Drive has each token once too, the one it was begun with apart.         *)
LEMMA DrivePageStep ==
    ASSUME ResultOK(read), NEW page \in Pages, NEW next \in Page \cup {None}, Len(page) <= R!PageSize(read),
           R!DrivePage(page, next)
    PROVE  ResultOK(read')
<1> DEFINE r == R!Listed(page, next)
           s == r.seen \cup {next}
           on == [r EXCEPT !.seen = @ \cup {next}, !.token = next]
<1>1. read.service = "drive" /\ read.place = "paging"
  BY DEF R!DrivePage
<1>2. /\ r \in Results /\ Held(r) /\ r.calls = read.calls + 1 /\ r.service = "drive" /\ r.place = "paging"
      /\ r.token = read.token /\ r.seen = read.seen /\ r.more = read.more /\ r.rest = (next # None)
  BY <1>1, ListedOK
<1>3. read' = IF next = None THEN R!Stop(r, FALSE)
              ELSE IF next \in r.seen THEN [r EXCEPT !.place = "failed"]
              ELSE IF R!Full(r.found) THEN R!Stop(on, TRUE)
              ELSE on
  BY DEF R!DrivePage
<1>4. r.seen \in SUBSET Page /\ read.calls = Cardinality(r.seen) /\ ~read.more
  BY <1>1, <1>2 DEF ResultOK, Results, Counted
<1>5. r.calls = Cardinality(r.seen) + 1 /\ r.calls <= Cardinality(Page) + 1
  BY <1>2, <1>4, PagesAreFinite
<1> HIDE DEF r
<1>6. CASE next = None
  BY <1>2, <1>3, <1>5, <1>6, StopOK
<1>7. CASE next # None /\ next \in r.seen
  <2>1. read' = [r EXCEPT !.place = "failed"]
    BY <1>3, <1>7
  <2>2. read' \in Results /\ read'.place = "failed" /\ read'.more = r.more
    BY <1>2, <2>1 DEF Results
  <2>3. read'.calls = r.calls /\ read'.service = "drive" /\ read'.found = r.found /\ read'.listed = r.listed
    BY <1>2, <2>1 DEF Results
  <2>4. Held(read')
    BY <1>2, <2>3 DEF Held
  <2> QED
    BY <1>2, <1>4, <1>5, <2>2, <2>3, <2>4 DEF ResultOK
<1>8. CASE next # None /\ next \notin r.seen
  <2>1. s \in SUBSET Page /\ next \in Page /\ Cardinality(s) = Cardinality(r.seen) + 1
    BY <1>4, <1>8, PagesAreFinite, FS_AddElement
  <2>2. on = [r EXCEPT !.seen = s, !.token = next]
    BY <1>2
  <2> HIDE DEF on, s
  <2>3. on \in Results /\ on.seen = s /\ on.place = "paging" /\ on.more = r.more
    BY <1>2, <2>1, <2>2 DEF Results
  <2>4. on.calls = r.calls /\ on.service = "drive" /\ on.found = r.found /\ on.listed = r.listed /\ on.rest = r.rest
    BY <1>2, <2>2 DEF Results
  <2>5. Held(on)
    BY <1>2, <2>4 DEF Held
  <2>6. CASE R!Full(r.found)
    BY <1>2, <1>3, <1>5, <1>8, <2>3, <2>4, <2>5, <2>6, StopOK
  <2>7. CASE ~R!Full(r.found)
    <3>1. read' = on
      BY <1>3, <1>8, <2>7
    <3>2. Counted(on)
      BY <1>5, <2>1, <2>3, <2>4 DEF Counted
    <3> QED
      BY <1>2, <1>4, <2>3, <2>4, <2>5, <2>7, <3>1, <3>2 DEF ResultOK
  <2> QED
    BY <2>6, <2>7
<1> QED
  BY <1>6, <1>7, <1>8


LEMMA GmailPageStep ==
    ASSUME ResultOK(read), NEW page \in Pages, NEW next \in Page \cup {None}, Len(page) <= R!PageSize(read),
           R!GmailPage(page, next)
    PROVE  ResultOK(read')
<1> DEFINE r == R!Listed(page, next)
<1>1. read.service = "gmail" /\ read.place = "paging" /\ read' = R!Stop(r, next # None)
  BY DEF R!GmailPage
<1>2. r \in Results /\ Held(r) /\ r.calls = read.calls + 1 /\ r.service = "gmail" /\ r.rest = (next # None)
  BY <1>1, ListedOK
<1>3. r.calls <= Cardinality(Page) + 1
  BY <1>1, <1>2, PagesAreFinite DEF ResultOK, Counted
<1> HIDE DEF r
<1> QED
  BY <1>1, <1>2, <1>3, StopOK

(* Tokens bound the calls, those of a read that is still paging too.       *)
LEMMA CallsAreFew == ASSUME ResultOK(read) PROVE read.calls <= Cardinality(Page) + 1
<1>1. CASE read.place # "paging"
  BY <1>1 DEF ResultOK
<1>2. CASE read.place = "paging"
  <2>1. read.seen \in SUBSET Page
    BY DEF ResultOK, Results
  <2>2. CASE read.calls = Cardinality(read.seen) + 1
    BY <2>1, <2>2, PagesAreFinite
  <2>3. CASE read.calls = Cardinality(read.seen) \/ read.calls = 0
    BY <2>1, <2>3, PagesAreFinite
  <2> QED
    BY <1>2, <2>2, <2>3 DEF ResultOK, Counted
<1> QED
  BY <1>1, <1>2

(* The end of a read that is not the last page.                            *)
LEMMA EndOK ==
    ASSUME ResultOK(read), NEW place \in {"done", "failed"}, NEW note \in {"none", "success", "failure"},
           read' = [read EXCEPT !.place = place, !.log = note],
           place = "done" => read.place = "logging" /\ (read.service = "calendar" => note = "success")
    PROVE  ResultOK(read')
<1>1. read \in Results /\ Held(read)
  BY DEF ResultOK
<1>2. read' \in Results /\ read'.place = place /\ read'.log = note
  BY <1>1 DEF Results
<1>3. read'.service = read.service /\ read'.found = read.found /\ read'.listed = read.listed
  BY <1>1 DEF Results
<1>4. read'.calls = read.calls /\ read'.more = read.more /\ read'.rest = read.rest
  BY <1>1 DEF Results
<1>5. read.calls <= Cardinality(Page) + 1
  BY CallsAreFew
<1>6. Held(read')
  BY <1>1, <1>3 DEF Held
<1> QED
  BY <1>2, <1>3, <1>4, <1>5, <1>6 DEF ResultOK

LEMMA ReadStep == ReadInv /\ R!ReadNext => ReadInv'
<1> SUFFICES ASSUME ReadInv, R!ReadNext PROVE ResultOK(read') /\ UNCHANGED <<copy, disk>>
  BY DEF ReadInv, CopyInv, R!NoCopy
<1>1. ResultOK(read)
  BY DEF ReadInv
<1>2. ASSUME NEW service \in R!Service, NEW from \in Page \cup {None}, R!Begin(service, from)
      PROVE  ResultOK(read') /\ UNCHANGED <<copy, disk>>
  BY <1>2, BeginStep DEF R!Begin
<1>3. ASSUME NEW page \in Pages, NEW next \in Page \cup {None}, Len(page) <= R!PageSize(read),
             R!CalendarPage(page, next) \/ R!DrivePage(page, next) \/ R!GmailPage(page, next)
      PROVE  ResultOK(read') /\ UNCHANGED <<copy, disk>>
  <2>1. ResultOK(read')
    BY <1>1, <1>3, CalendarPageStep, DrivePageStep, GmailPageStep
  <2>2. UNCHANGED <<copy, disk>>
    BY <1>3 DEF R!CalendarPage, R!DrivePage, R!GmailPage
  <2> QED
    BY <2>1, <2>2
<1>4. CASE R!Fail
  BY <1>1, <1>4, EndOK DEF R!Fail
<1>5. CASE R!Return
  BY <1>5, NoReadOK DEF R!Return
<1>6. ASSUME NEW audited \in BOOLEAN, R!Log(audited)
      PROVE  ResultOK(read') /\ UNCHANGED <<copy, disk>>
  <2> DEFINE place == IF audited \/ read.service # "calendar" THEN "done" ELSE "failed"
             note  == IF audited THEN "success" ELSE "none"
  <2>1. read' = [read EXCEPT !.place = place, !.log = note] /\ UNCHANGED <<copy, disk>>
    BY <1>6 DEF R!Log
  <2>2. /\ place \in {"done", "failed"} /\ note \in {"none", "success", "failure"}
        /\ place = "done" /\ read.service = "calendar" => note = "success"
    OBVIOUS
  <2>3. read.place = "logging"
    BY <1>6 DEF R!Log
  <2> HIDE DEF place, note
  <2> QED
    BY <1>1, <2>1, <2>2, <2>3, EndOK
<1> QED
  BY <1>2, <1>3, <1>4, <1>5, <1>6 DEF R!ReadNext, Pages

(* The copies.                                                             *)
LEMMA CopyStep == ReadInv /\ R!CopyNext => ReadInv'
<1> SUFFICES ASSUME ReadInv, R!CopyNext PROVE ReadInv'
  OBVIOUS
<1>1. MaxSize \in Nat
  BY ReadsAssumption
<1>2. ResultOK(read')
  BY NoReadOK DEF ReadInv, R!CopyNext, R!BeginCopy, R!Chunk, R!Replace, R!FailCopy, R!Die
<1>3. CopyInv'
  <2> DEFINE Copies == [place : {"idle", "writing"}, size : Nat, got : 0..MaxSize]
             Files  == SUBSET [size : Nat, got : Nat]
             Disks  == [begun : Nat, died : Nat, temps : Nat, finals : Files]
  <2>1. copy \in Copies /\ disk \in Disks /\ R!NoCopy \in Copies /\ R!NoCopy.place = "idle"
    BY <1>1 DEF ReadInv, CopyInv, R!NoCopy
  <2>2. ASSUME NEW size \in Nat, R!BeginCopy(size)
        PROVE  CopyInv'
    <3>1. /\ copy = R!NoCopy /\ copy' = [place |-> "writing", size |-> size, got |-> 0]
          /\ disk' = [disk EXCEPT !.begun = @ + 1, !.temps = @ + 1]
      BY <2>2 DEF R!BeginCopy
    <3>2. disk.temps = disk.died /\ disk.died \in Nat /\ disk.begun \in Nat
      BY <2>1, <3>1 DEF ReadInv, CopyInv
    <3>3. copy' \in Copies /\ copy' # R!NoCopy
      BY <1>1, <2>1, <2>2, <3>1
    <3>4. disk' \in Disks /\ disk'.temps = disk'.died + 1 /\ disk'.finals = disk.finals
      <4> DEFINE b == disk.begun + 1
                 t == disk.temps + 1
      <4>1. b \in Nat /\ t \in Nat /\ t = disk.died + 1
        BY <3>2
      <4>2. disk' = [disk EXCEPT !.begun = b, !.temps = t]
        BY <3>1
      <4> HIDE DEF b, t, Files
      <4>3. disk' \in Disks
        BY <2>1, <4>1, <4>2
      <4>4. disk'.temps = t /\ disk'.died = disk.died /\ disk'.finals = disk.finals
        BY <2>1, <4>2
      <4> QED
        BY <4>1, <4>3, <4>4
    <3> QED
      BY <3>3, <3>4 DEF ReadInv, CopyInv, R!NoCopy
  <2>3. CASE copy # R!NoCopy /\ R!Abandon
    <3>1. disk' = [disk EXCEPT !.temps = @ - 1] /\ copy' = R!NoCopy
      BY <2>3 DEF R!Abandon
    <3>2. disk.temps - 1 = disk.died /\ disk.died \in Nat
      BY <2>1, <2>3 DEF ReadInv, CopyInv
    <3> QED
      BY <2>1, <3>1, <3>2 DEF ReadInv, CopyInv
  <2>4. CASE R!Chunk
    <3>1. copy # R!NoCopy
      BY <2>1, <2>4 DEF R!Chunk
    <3>2. CASE copy.got + 1 > MaxSize
      BY <2>3, <2>4, <3>1, <3>2 DEF R!Chunk
    <3>3. CASE ~(copy.got + 1 > MaxSize)
      <4>1. copy' = [copy EXCEPT !.got = @ + 1] /\ UNCHANGED disk /\ copy.got + 1 \in 0..MaxSize
        BY <1>1, <2>1, <2>4, <3>3 DEF R!Chunk
      <4>2. copy' \in Copies /\ copy'.place = "writing"
        BY <2>1, <2>4, <4>1 DEF R!Chunk
      <4>3. copy' # R!NoCopy
        BY <2>1, <4>2
      <4> QED
        BY <3>1, <4>1, <4>2, <4>3 DEF ReadInv, CopyInv, R!NoCopy
    <3> QED
      BY <3>2, <3>3
  <2>5. CASE R!Replace
    <3> DEFINE file == [size |-> copy.size, got |-> copy.got]
    <3>1. copy # R!NoCopy /\ copy.got = copy.size /\ copy.size \in Nat /\ copy.got \in Nat /\ copy.got <= MaxSize
      BY <1>1, <2>1, <2>5 DEF R!Replace
    <3>2. file \in [size : Nat, got : Nat] /\ file.got = file.size /\ file.size <= MaxSize
      BY <3>1
    <3>3. disk' = [disk EXCEPT !.temps = @ - 1, !.finals = @ \cup {file}] /\ copy' = R!NoCopy
      BY <2>5 DEF R!Replace
    <3>4. disk.temps - 1 = disk.died /\ disk.died \in Nat
      BY <2>1, <3>1 DEF ReadInv, CopyInv
    <3> HIDE DEF file
    <3>5. disk' \in Disks /\ disk'.temps = disk'.died /\ disk'.finals = disk.finals \cup {file}
      BY <2>1, <3>2, <3>3, <3>4
    <3> QED
      BY <2>1, <3>2, <3>3, <3>5 DEF ReadInv, CopyInv
  <2>6. CASE R!Die
    <3>1. disk' = [disk EXCEPT !.died = @ + 1] /\ copy' = R!NoCopy /\ copy # R!NoCopy
      BY <2>6 DEF R!Die
    <3>2. disk.temps = disk.died + 1 /\ disk.died \in Nat
      BY <2>1, <3>1 DEF ReadInv, CopyInv
    <3> QED
      BY <2>1, <3>1, <3>2 DEF ReadInv, CopyInv
  <2>7. \A size \in 0..(MaxSize + 1) : size \in Nat
    BY <1>1
  <2> QED
    BY <2>2, <2>3, <2>4, <2>5, <2>6, <2>7 DEF R!CopyNext, R!FailCopy
<1> QED
  BY <1>2, <1>3 DEF ReadInv

(* A read ends, keeps its limit and says whether Google has more pages;    *)
(* what the calendar and Gmail do not say is left they return, however     *)
(* Google cuts its pages. A downloaded file is whole.                      *)
THEOREM ReadsStayHonest == Spec => []ReadsAreHonest
<1>1. Init => ReadInv
  <2>1. R!NoCopy \in [place : {"idle", "writing"}, size : Nat, got : 0..MaxSize]
    BY ReadsAssumption DEF R!NoCopy
  <2> QED
    BY <2>1, NoReadOK DEF Init, R!Init, ReadInv, CopyInv
<1>2. ReadInv /\ [Next]_vars => ReadInv'
  <2>1. ReadInv /\ UNCHANGED readVars => ReadInv'
    BY DEF ReadInv, CopyInv, readVars, R!NoCopy
  <2> QED
    BY <2>1, Followed, ReadStep, CopyStep
<1>3. ReadInv => ReadsAreHonest
  <2> SUFFICES ASSUME ReadInv PROVE R!ReadsAreHonest /\ R!CopiesAreWhole
    BY DEF ReadsAreHonest
  <2>1. read.calls <= Cardinality(Page) + 1
    BY CallsAreFew DEF ReadInv
  <2>2. R!ReadsAreHonest
    BY <2>1, SameCardinality DEF ReadInv, ResultOK, Held, R!ReadsAreHonest
  <2>3. R!CopiesAreWhole
    BY DEF ReadInv, CopyInv, R!CopiesAreWhole
  <2> QED
    BY <2>2, <2>3
<1> QED
  BY <1>1, <1>2, <1>3, PTL DEF Spec
=============================================================================
