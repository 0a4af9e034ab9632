--------------------------- MODULE Conversation ---------------------------
(***************************************************************************)
(* The question a chat waits to have answered (ConversationService over    *)
(* ConversationRepository): every operation is one BEGIN IMMEDIATE         *)
(* transaction, so an action. handle_text offers each plain message to     *)
(* try_resolve_pending before anything else; no command asks yet.          *)
(***************************************************************************)
EXTENDS Naturals, Sequences, FiniteSetsExt

CONSTANTS
    Chat, User,
    MaxQuestion,   \* bound: questions asked, numbered by created_at
    Menu,          \* lists of choices [index (as it is written), label, high] to offer
    Contextual,    \* "ok", "ya", "lanjut"
    Reply,         \* what users write, in lower case and without blanks
    None

VARIABLE questions   \* Question -> the row of conversation_pending_interactions

-----------------------------------------------------------------------------
Question == 1..MaxQuestion
Status   == {"absent", "open", "resolved", "expired", "superseded"}

(* said: the reply that resolved it; due: is expires_at past?              *)
Absent == [status |-> "absent", chat |-> None, user |-> None, menu |-> <<>>,
           due |-> FALSE, choice |-> 0, said |-> None]

(* _safe_choices, of what Menu may hold.                                   *)
Valid(menu) ==
    /\ \A i, j \in DOMAIN menu : menu[i].index = menu[j].index => i = j
    /\ \A i \in DOMAIN menu : menu[i].high => menu[i].label \notin Contextual

(* max_risk_level, a bare look at the first choice.                        *)
RiskyFirst(menu) == menu[1].high

(* max_risk_level.                                                         *)
Risky(menu) == \E i \in DOMAIN menu : menu[i].high

Matches(choice, text) == text \in {choice.index, choice.label}

(* _exact_choice: the first that matches.                                  *)
Exact(menu, text) == {i \in DOMAIN menu : Matches(menu[i], text)}

(* The choice a reply selects, as its place in the menu; 0 if ambiguous.   *)
Selected(menu, text) ==
    IF Exact(menu, text) # {} THEN Min(Exact(menu, text))
    ELSE IF text \in Contextual /\ ~Risky(menu) THEN 1 ELSE 0

(* expire_open_in.                                                         *)
Expire(row) == IF row.status = "open" /\ row.due THEN [row EXCEPT !.status = "expired"] ELSE row
Expired     == [q \in Question |-> Expire(questions[q])]

-----------------------------------------------------------------------------
Init == questions = [q \in Question |-> Absent]

(* ask: expires what is due, supersedes the open question of the chat,     *)
(* whoever was asked, and inserts its own.                                 *)
Ask(c, u, menu) ==
    LET new == {q \in Question : questions[q].status = "absent"}
        supersede(row) == IF row.status = "open" /\ row.chat = c
                          THEN [row EXCEPT !.status = "superseded"] ELSE row
    IN  /\ Valid(menu)
        /\ new # {}
        /\ questions' = [[q \in Question |-> supersede(Expired[q])] EXCEPT
               ![Min(new)] = [Absent EXCEPT !.status = "open", !.chat = c, !.user = u, !.menu = menu]]

OpenTo(u) == {q \in Question : questions[q].status = "open" /\ questions[q].user = u}

(* try_resolve_pending: the latest question the user has open in any chat. *)
(* If that has expired, no older one is resolved by the same reply.        *)
TryResolve(u, text) ==
    LET q == Max(OpenTo(u))
        i == Selected(questions[q].menu, text)
    IN  /\ OpenTo(u) # {}
        /\ questions' = IF questions[q].due \/ i = 0 THEN Expired
                        ELSE [Expired EXCEPT ![q].status = "resolved", ![q].choice = i, ![q].said = text]

(* expire_stale.                                                           *)
ExpireStale == questions' = Expired

(* The time to live of a question runs out.                                *)
FallDue(q) ==
    /\ questions[q].status = "open"
    /\ questions' = [questions EXCEPT ![q].due = TRUE]

Next ==
    \/ ExpireStale
    \/ \E q \in Question : FallDue(q)
    \/ \E u \in User : \/ \E c \in Chat : \E menu \in Menu : Ask(c, u, menu)
                       \/ \E text \in Reply : TryResolve(u, text)

Spec == Init /\ [][Next]_questions

-----------------------------------------------------------------------------
(* A high-risk choice is selected only by its own number or label, never   *)
(* by a contextual word, and with one in the menu no bare contextual word  *)
(* selects anything; a chat has one open question, the last it was asked   *)
(* (docs/SPRINT_8G.md, the confirmation rules).                            *)
ChoicesAreMeant ==
    \A q \in Question :
      LET row == questions[q] IN
        /\ row.status = "resolved" <=> row.choice # 0
        /\ row.status = "resolved" =>
              LET choice == row.menu[row.choice] IN
                /\ choice.high => Matches(choice, row.said) /\ row.said \notin Contextual
                /\ row.said \in Contextual =>
                      \/ \A i \in DOMAIN row.menu : ~row.menu[i].high
                      \/ choice.label = row.said
        /\ row.status = "open" =>
              \A r \in Question : questions[r].status # "absent" /\ questions[r].chat = row.chat => r <= q
=============================================================================
