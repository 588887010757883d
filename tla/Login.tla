------------------------------- MODULE Login --------------------------------
(***************************************************************************)
(* LoginPreRequest and LoginRequest (src/Server/Server.cpp), the challenge *)
(* and token pools of the user manager (include/user_manager.h) and the    *)
(* challenges and tokens of include/utils/crypto.h.                        *)
(*                                                                         *)
(* step[w], where worker w is in a handler:                                *)
(*   [setChallenge ->] answerPre                                           *)
(*   [verify -> [setToken ->] delete ->] answer                            *)
(*                                                                         *)
(* Each pool has a mutex that is held for one lookup or one change, so     *)
(* each of these is one step.  A proof is a challenge and whether it was   *)
(* hashed with the user's password: SHA256 is taken to be injective.       *)
(***************************************************************************)
EXTENDS Naturals, FiniteSets

CONSTANTS Workers, Users,
          Patient,       \* users whose client makes one request at a time
          Challenges,    \* what genChallenge may return
          Tokens,        \* the UUIDs genToken will draw
          NoChallenge,   \* "", of a user who has none
          NoToken,
          NoUser         \* user id 0

ASSUME LoginAssumption == /\ Patient \subseteq Users
                          /\ NoChallenge \notin Challenges
                          /\ NoToken \notin Tokens /\ IsFiniteSet(Tokens)
                          /\ NoUser \notin Users

VARIABLES registered,   \* the users table (DataAccess.tla)
          challenge,    \* challenge[u]: _challenge_pool
          owner,        \* owner[t]: _token_pool
          step, job,    \* where worker w is, and with what
          drawn,        \* the tokens drawn so far
          held,         \* held[u]: the challenge the clients of u were last told
          given,        \* given[t]: whom this process answered t (history)
          clean,        \* users who can log in undisturbed, see below (history)
          uses          \* uses[u]: the logins that the challenge last set for u
                        \* has been good for (history)

vars == <<registered, challenge, owner, step, job, drawn, held, given, clean, uses>>

NoJob == [user |-> NoUser, challenge |-> NoChallenge, right |-> FALSE,
          token |-> NoToken, clean |-> FALSE]

Init == /\ registered = {}
        /\ challenge = [u \in Users |-> NoChallenge]
        /\ owner = [t \in Tokens |-> NoUser]
        /\ step = [w \in Workers |-> "idle"]
        /\ job = [w \in Workers |-> NoJob]
        /\ drawn = {}
        /\ held = [u \in Users |-> NoChallenge]
        /\ given = [t \in Tokens |-> NoUser]
        /\ clean = {}
        /\ uses = [u \in Users |-> 0]

Goto(w, l) == step' = [step EXCEPT ![w] = l]
Return(w) == Goto(w, "idle") /\ job' = [job EXCEPT ![w] = NoJob]

Busy(u) == \E w \in Workers : job[w].user = u
ClientMayAsk(u) == u \in Patient => ~Busy(u)

(* A request of u begins.  An attempt to log in - a LoginPreRequest and    *)
(* the LoginRequest that follows its answer - is clean while no other      *)
(* request of u is handled at the same time.                               *)
Begin(w, u, l, j) ==
  /\ step[w] = "idle"
  /\ ClientMayAsk(u)
  /\ Goto(w, l)
  /\ job' = [v \in Workers |->
               IF v = w THEN [j EXCEPT !.clean = @ /\ ~Busy(u)]
               ELSE IF job[v].user = u THEN [job[v] EXCEPT !.clean = FALSE]
               ELSE job[v]]
  /\ clean' = clean \ {u}

(* Keeps the number of logins below the number of tokens.                  *)
TokenLeft == Cardinality({w \in Workers : step[w] \in {"verify", "setToken"}})
               < Cardinality(Tokens \ drawn)
-----------------------------------------------------------------------------
(* Wrong variants of the steps, for the property in the comment.           *)

(* TypeOK: the user logged in is the token's instead of the token the      *)
(* user's.                                                                 *)
SetTokenReversed(w) ==
  /\ step[w] = "setToken"
  /\ \E t \in Tokens \ drawn :
       /\ owner' = [owner EXCEPT ![t] = t]
       /\ job' = [job EXCEPT ![w].token = t]
       /\ drawn' = drawn \cup {t}
  /\ uses' = [uses EXCEPT ![job[w].user] = @ + (IF job[w].challenge = NoChallenge THEN 0 ELSE 1)]
  /\ Goto(w, "delete")
  /\ UNCHANGED <<registered, challenge, held, given, clean>>

(* RightLoginSucceeds: std::unordered_map::insert keeps what is there.     *)
InsertChallenge(w) ==
  LET u == job[w].user IN
  /\ step[w] = "setChallenge"
  /\ \E c \in Challenges :
       /\ challenge' = [challenge EXCEPT ![u] = IF @ = NoChallenge THEN c ELSE @]
       /\ job' = [job EXCEPT ![w].challenge = c]
  /\ uses' = [uses EXCEPT ![u] = 0]
  /\ Goto(w, "answerPre")
  /\ UNCHANGED <<registered, owner, drawn, held, given, clean>>

(* ChallengeUsedOnce: only a failed login deletes the challenge.           *)
DelChallengeOnFailure(w) ==
  /\ step[w] = "delete"
  /\ challenge' = [challenge EXCEPT ![job[w].user] =
                     IF job[w].token = NoToken THEN NoChallenge ELSE @]
  /\ Goto(w, "answer")
  /\ UNCHANGED <<registered, owner, job, drawn, held, given, clean, uses>>

(* AnsweredTokenWorks: a login ends the user's earlier sessions.           *)
SetOnlyToken(w) ==
  /\ step[w] = "setToken"
  /\ \E t \in Tokens \ drawn :
       /\ owner' = [s \in Tokens |-> IF s = t THEN job[w].user
                                     ELSE IF owner[s] = job[w].user THEN NoUser
                                     ELSE owner[s]]
       /\ job' = [job EXCEPT ![w].token = t]
       /\ drawn' = drawn \cup {t}
  /\ uses' = [uses EXCEPT ![job[w].user] = @ + (IF job[w].challenge = NoChallenge THEN 0 ELSE 1)]
  /\ Goto(w, "delete")
  /\ UNCHANGED <<registered, challenge, held, given, clean>>
-----------------------------------------------------------------------------
Register(u) ==
  /\ registered' = registered \cup {u}
  /\ UNCHANGED <<challenge, owner, step, job, drawn, held, given, clean, uses>>

(* LoginPreRequest: for a name that is not in the table the answer is an   *)
(* empty challenge.                                                        *)
LoginPre(w, u) ==
  /\ Begin(w, u, IF u \in registered THEN "setChallenge" ELSE "answerPre",
           [NoJob EXCEPT !.user = u, !.clean = TRUE])
  /\ UNCHANGED <<registered, challenge, owner, drawn, held, given, uses>>

(* genChallenge seeds rand() with the time in seconds: two challenges of   *)
(* one second may be the same.                                             *)
SetChallenge(w) ==
  LET u == job[w].user IN
  /\ step[w] = "setChallenge"
  /\ \E c \in Challenges : /\ challenge' = [challenge EXCEPT ![u] = c]
                           /\ job' = [job EXCEPT ![w].challenge = c]
  /\ uses' = [uses EXCEPT ![u] = 0]
  /\ Goto(w, "answerPre")
  /\ UNCHANGED <<registered, owner, drawn, held, given, clean>>

AnswerPre(w) ==
  LET u == job[w].user IN
  /\ step[w] = "answerPre"
  /\ held' = [held EXCEPT ![u] = job[w].challenge]
  /\ clean' = IF job[w].clean /\ job[w].challenge # NoChallenge
              THEN clean \cup {u} ELSE clean
  /\ Return(w)
  /\ UNCHANGED <<registered, challenge, owner, drawn, given, uses>>
-----------------------------------------------------------------------------
(* LoginRequest, over the challenge the client holds; those of a user who  *)
(* is not patient may hold others.  A name that is not in the table is     *)
(* refused at once.                                                        *)
LoginRequest(w, u, c, right) ==
  /\ TokenLeft
  /\ u \in Patient => c = held[u]
  /\ Begin(w, u, IF u \in registered THEN "verify" ELSE "answer",
           [NoJob EXCEPT !.user = u, !.challenge = c, !.right = right,
                         !.clean = u \in clean /\ c = held[u]])
  /\ UNCHANGED <<registered, challenge, owner, drawn, held, given, uses>>

(* getChallengeMp gives "" when there is none.                             *)
Verify(w) ==
  /\ step[w] = "verify"
  /\ Goto(w, IF job[w].right /\ job[w].challenge = challenge[job[w].user]
             THEN "setToken" ELSE "delete")
  /\ UNCHANGED <<registered, challenge, owner, job, drawn, held, given, clean, uses>>

SetToken(w) ==
  /\ step[w] = "setToken"
  /\ \E t \in Tokens \ drawn :
       /\ owner' = [owner EXCEPT ![t] = job[w].user]
       /\ job' = [job EXCEPT ![w].token = t]
       /\ drawn' = drawn \cup {t}
  /\ uses' = [uses EXCEPT ![job[w].user] = @ + (IF job[w].challenge = NoChallenge THEN 0 ELSE 1)]
  /\ Goto(w, "delete")
  /\ UNCHANGED <<registered, challenge, held, given, clean>>

DelChallenge(w) ==
  /\ step[w] = "delete"
  /\ challenge' = [challenge EXCEPT ![job[w].user] = NoChallenge]
  /\ Goto(w, "answer")
  /\ UNCHANGED <<registered, owner, job, drawn, held, given, clean, uses>>

AnswerLogin(w) ==
  /\ step[w] = "answer"
  /\ given' = IF job[w].token = NoToken THEN given
              ELSE [given EXCEPT ![job[w].token] = job[w].user]
  /\ Return(w)
  /\ UNCHANGED <<registered, challenge, owner, drawn, held, clean, uses>>
-----------------------------------------------------------------------------
ReplyFails(w) ==
  /\ step[w] \in {"answerPre", "answer"}
  /\ Return(w)
  /\ UNCHANGED <<registered, challenge, owner, drawn, held, given, clean, uses>>

(* The process ends and is started again: the pools are empty, the users   *)
(* table and what clients know is not.                                     *)
Restart ==
  /\ challenge' = [u \in Users |-> NoChallenge]
  /\ owner' = [t \in Tokens |-> NoUser]
  /\ step' = [w \in Workers |-> "idle"]
  /\ job' = [w \in Workers |-> NoJob]
  /\ given' = [t \in Tokens |-> NoUser]
  /\ clean' = {}
  /\ uses' = [u \in Users |-> 0]
  /\ UNCHANGED <<registered, drawn, held>>

Next == \/ \E w \in Workers :
             \/ \E u \in Users : \/ LoginPre(w, u)
                                 \/ \E c \in Challenges \cup {NoChallenge}, right \in BOOLEAN :
                                      LoginRequest(w, u, c, right)
             \/ SetChallenge(w) \/ AnswerPre(w)
             \/ Verify(w) \/ SetToken(w) \/ DelChallenge(w) \/ AnswerLogin(w)
             \/ ReplyFails(w)
        \/ \E u \in Users : Register(u)
        \/ Restart

Spec == Init /\ [][Next]_vars
-----------------------------------------------------------------------------
Jobs == [user : Users \cup {NoUser}, challenge : Challenges \cup {NoChallenge},
         right : BOOLEAN, token : Tokens \cup {NoToken}, clean : BOOLEAN]

TypeOK == /\ registered \subseteq Users
          /\ challenge \in [Users -> Challenges \cup {NoChallenge}]
          /\ owner \in [Tokens -> Users \cup {NoUser}]
          /\ step \in [Workers -> {"idle", "setChallenge", "answerPre", "verify",
                                   "setToken", "delete", "answer"}]
          /\ job \in [Workers -> Jobs]
          /\ drawn \subseteq Tokens
          /\ held \in [Users -> Challenges \cup {NoChallenge}]
          /\ given \in [Tokens -> Users \cup {NoUser}]
          /\ clean \subseteq Users
          /\ uses \in [Users -> 0..Cardinality(Tokens)]

(* Whoever proves the right password over the challenge he was answered is *)
(* logged in, unless another request of the same user was handled at the   *)
(* same time or the server restarted in between: no earlier login, whether *)
(* its answer arrived or not, takes the new challenge away.                *)
RightLoginSucceeds ==
  \A w \in Workers :
    step[w] \in {"delete", "answer"} /\ job[w].clean /\ job[w].right =>
      job[w].token # NoToken

(* A challenge is good for one login of a user whose client makes one      *)
(* request at a time, also when it sends the same LoginRequest again       *)
(* because the answer did not arrive.                                      *)
ChallengeUsedOnce == \A u \in Patient : uses[u] <= 1

(* A token that was answered means its user for as long as the process     *)
(* runs, whoever logs in after him.                                        *)
getUserIdByToken(t) == owner[t]
AnsweredTokenWorks ==
  \A t \in Tokens : given[t] # NoUser => getUserIdByToken(t) = given[t]
=============================================================================
