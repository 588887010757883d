---------------------------- MODULE LoginProofs -----------------------------
(***************************************************************************)
(* Proofs about Login for any number of workers, users, challenges and     *)
(* tokens: types, that an answered token keeps meaning its user, that a    *)
(* challenge is good for one login of a patient user, and that the right   *)
(* password logs in an undisturbed user.                                   *)
(***************************************************************************)
EXTENDS Login, FiniteSetTheorems, TLAPS

(* A worker has a user exactly while it handles a request.                 *)
BusyInv == \A w \in Workers : step[w] = "idle" <=> job[w].user = NoUser

(* A worker has a token only between SetToken and the answer, and the pool *)
(* has it too; tokens that were drawn are not drawn again.                 *)
TokenInv ==
  /\ \A w \in Workers : job[w].token # NoToken =>
       /\ step[w] \in {"delete", "answer"}
       /\ job[w].token \in drawn
       /\ owner[job[w].token] = job[w].user
  /\ \A t \in Tokens : given[t] # NoUser => t \in drawn

(* Each login draws a token.                                               *)
DrawnInv == \A u \in Users : uses[u] <= Cardinality(drawn)

(* What the theorems that concern every client rest on.                    *)
TypeInv == TypeOK /\ BusyInv /\ TokenInv /\ DrawnInv /\ AnsweredTokenWorks

(* A patient user occupies at most one worker.                             *)
OneRequest ==
  \A u \in Patient : \A v, w \in Workers :
    job[v].user = u /\ job[w].user = u => v = w

(* The challenge that is set was not used, unless the worker that used it  *)
(* has still to delete it; and one that was found right was not used yet.  *)
UnusedInv ==
  \A u \in Patient :
    /\ challenge[u] # NoChallenge
         /\ (\A w \in Workers : job[w].user = u => step[w] # "delete") => uses[u] = 0
    /\ \A w \in Workers :
         job[w].user = u /\ step[w] = "setToken" /\ job[w].challenge # NoChallenge =>
           uses[u] = 0

(* The worker of a clean attempt is the only one of its user.              *)
AloneInv ==
  \A w \in Workers : job[w].clean =>
    /\ job[w].user # NoUser
    /\ \A v \in Workers : job[v].user = job[w].user => v = w

(* What a clean attempt has in hand is what the pool has, and where it has *)
(* got to with the right password there is a token.                        *)
CleanJobInv ==
  \A w \in Workers : job[w].clean =>
    /\ step[w] = "setChallenge" => job[w].user \in registered
    /\ step[w] = "answerPre" /\ job[w].challenge # NoChallenge =>
         job[w].user \in registered /\ challenge[job[w].user] = job[w].challenge
    /\ step[w] = "verify" => challenge[job[w].user] = job[w].challenge
    /\ step[w] \in {"delete", "answer"} /\ job[w].right => job[w].token # NoToken

(* A user between the two requests of a clean attempt holds the challenge  *)
(* that is set, and nobody is at work for him.                             *)
CleanUserInv ==
  \A u \in clean : u \in registered /\ held[u] = challenge[u] /\ ~Busy(u)

(* Patient users: their challenges, and their attempts.                    *)
OnceInv == OneRequest /\ UnusedInv /\ ChallengeUsedOnce
CleanInv == AloneInv /\ CleanJobInv /\ CleanUserInv
-----------------------------------------------------------------------------
(* Apart from being clean two jobs are the same.                           *)
SameJob(i, j) == /\ i.user = j.user /\ i.challenge = j.challenge
                 /\ i.right = j.right /\ i.token = j.token

(* A new request: its worker was idle, the others go on.                   *)
LEMMA BeginJob ==
  ASSUME TypeOK, NEW w \in Workers, NEW u \in Users, NEW l, NEW j \in Jobs,
         Begin(w, u, l, j)
  PROVE  /\ step[w] = "idle" /\ step' = [step EXCEPT ![w] = l]
         /\ clean' = clean \ {u}
         /\ job' \in [Workers -> Jobs]
         /\ SameJob(job'[w], j) /\ (job'[w].clean <=> j.clean /\ ~Busy(u))
         /\ \A v \in Workers \ {w} :
              /\ SameJob(job'[v], job[v])
              /\ job'[v].clean <=> job[v].clean /\ job[v].user # u
<1>1. step[w] = "idle" /\ step' = [step EXCEPT ![w] = l] /\ clean' = clean \ {u}
  BY DEF Begin, Goto
<1>2. PICK b \in BOOLEAN : b = (j.clean /\ ~Busy(u))
  OBVIOUS
<1>3. job' = [v \in Workers |->
               IF v = w THEN [j EXCEPT !.clean = b]
               ELSE IF job[v].user = u THEN [job[v] EXCEPT !.clean = FALSE]
               ELSE job[v]]
  BY <1>2 DEF Begin
<1>4. /\ job'[w] \in Jobs
      /\ SameJob(job'[w], j) /\ (job'[w].clean <=> j.clean /\ ~Busy(u))
  BY <1>2, <1>3 DEF Jobs, SameJob
<1>5. ASSUME NEW v \in Workers \ {w}
      PROVE  /\ job'[v] \in Jobs
             /\ SameJob(job'[v], job[v])
             /\ job'[v].clean <=> job[v].clean /\ job[v].user # u
  BY <1>3 DEF TypeOK, Jobs, SameJob
<1>6. job' \in [Workers -> Jobs]
  <2>1. \A v \in Workers : job'[v] \in Jobs
    BY <1>4, <1>5
  <2> QED
    BY <1>3, <2>1
<1> QED
  BY <1>1, <1>4, <1>5, <1>6

(* What the beginnings of LoginPreRequest and LoginRequest have in common. *)
RequestBegins(w, u, l, j) ==
  /\ Begin(w, u, l, j)
  /\ j \in Jobs /\ j.user = u /\ j.token = NoToken
  /\ l \in {"setChallenge", "answerPre", "verify", "answer"}
  /\ UNCHANGED <<registered, challenge, owner, drawn, held, given, uses>>
  /\ u \in Patient => ~Busy(u)
  /\ l \in {"setChallenge", "verify"} => u \in registered
  /\ l = "answerPre" => j.challenge = NoChallenge
  /\ l \in {"verify", "answer"} /\ j.clean => u \in clean /\ j.challenge = held[u]
  /\ l = "answer" => u \notin registered

(* ... and that they have it.                                              *)
LEMMA RequestStep ==
  ASSUME TypeOK, NEW w \in Workers, NEW u \in Users,
         \/ LoginPre(w, u)
         \/ \E c \in Challenges \cup {NoChallenge}, right \in BOOLEAN :
              LoginRequest(w, u, c, right)
  PROVE  \E l, j : RequestBegins(w, u, l, j)
<1>1. CASE LoginPre(w, u)
  <2> DEFINE l == IF u \in registered THEN "setChallenge" ELSE "answerPre"
             j == [NoJob EXCEPT !.user = u, !.clean = TRUE]
  <2>1. j \in Jobs /\ j.user = u /\ j.token = NoToken /\ j.challenge = NoChallenge
    BY DEF NoJob, Jobs
  <2>2. Begin(w, u, l, j) /\ (u \in Patient => ~Busy(u))
    BY <1>1 DEF LoginPre, Begin, ClientMayAsk
  <2> HIDE DEF j
  <2>3. RequestBegins(w, u, l, j)
    BY <1>1, <2>1, <2>2 DEF RequestBegins, LoginPre
  <2> QED
    BY <2>3
<1>2. ASSUME NEW c \in Challenges \cup {NoChallenge}, NEW right \in BOOLEAN,
             LoginRequest(w, u, c, right)
      PROVE  \E l, j : RequestBegins(w, u, l, j)
  <2>1. PICK b \in BOOLEAN : b = (u \in clean /\ c = held[u])
    OBVIOUS
  <2> DEFINE l == IF u \in registered THEN "verify" ELSE "answer"
             j == [NoJob EXCEPT !.user = u, !.challenge = c, !.right = right,
                                !.clean = b]
  <2>2. /\ j \in Jobs /\ j.user = u /\ j.token = NoToken /\ j.challenge = c
        /\ j.clean = b
    BY DEF NoJob, Jobs
  <2>3. Begin(w, u, l, j) /\ (u \in Patient => ~Busy(u))
    BY <1>2, <2>1 DEF LoginRequest, Begin, ClientMayAsk
  <2> HIDE DEF j
  <2>4. RequestBegins(w, u, l, j)
    BY <1>2, <2>1, <2>2, <2>3 DEF RequestBegins, LoginRequest
  <2> QED
    BY <2>4
<1> QED
  BY <1>1, <1>2
-----------------------------------------------------------------------------
(* TypeInv holds of empty pools and idle workers.                          *)
LEMMA TypeInit == Init => TypeInv
<1> SUFFICES ASSUME Init PROVE TypeInv
  OBVIOUS
<1>1. TypeOK
  <2>1. 0 \in 0..Cardinality(Tokens)
    BY LoginAssumption, FS_CardinalityType
  <2> QED
    BY <2>1 DEF Init, TypeOK, Jobs, NoJob
<1>2. BusyInv /\ TokenInv /\ DrawnInv /\ AnsweredTokenWorks
  BY FS_EmptySet DEF Init, BusyInv, TokenInv, DrawnInv, AnsweredTokenWorks, NoJob
<1> QED
  BY <1>1, <1>2 DEF TypeInv

(* A request begins without a token.                                       *)
LEMMA TypeRequest ==
  ASSUME TypeInv, NEW w \in Workers, NEW u \in Users, NEW l, NEW j,
         RequestBegins(w, u, l, j)
  PROVE  TypeInv'
<1> USE DEF TypeInv
<1>1. /\ step[w] = "idle" /\ step' = [step EXCEPT ![w] = l]
      /\ clean' = clean \ {u}
      /\ job' \in [Workers -> Jobs]
      /\ SameJob(job'[w], j)
      /\ \A v \in Workers \ {w} : SameJob(job'[v], job[v])
  BY BeginJob DEF RequestBegins
<1>2. TypeOK'
  BY <1>1 DEF TypeOK, RequestBegins
<1>3. BusyInv'
  BY <1>1, LoginAssumption DEF BusyInv, RequestBegins, SameJob, TypeOK
<1>4. TokenInv' /\ DrawnInv' /\ AnsweredTokenWorks'
  BY <1>1 DEF TokenInv, DrawnInv, AnsweredTokenWorks, getUserIdByToken,
              RequestBegins, SameJob, TypeOK
<1> QED
  BY <1>2, <1>3, <1>4

(* SetToken puts a token into the pool that nobody has.                    *)
LEMMA TypeSetToken ==
  ASSUME TypeInv, NEW w \in Workers, SetToken(w)
  PROVE  TypeInv'
<1> USE DEF TypeInv, Goto
<1> DEFINE u == job[w].user
<1>1. PICK t \in Tokens \ drawn :
        /\ owner' = [owner EXCEPT ![t] = u]
        /\ job' = [job EXCEPT ![w].token = t]
        /\ drawn' = drawn \cup {t}
  BY DEF SetToken
<1>2. /\ step[w] = "setToken" /\ step' = [step EXCEPT ![w] = "delete"]
      /\ uses' = [uses EXCEPT ![u] = @ + (IF job[w].challenge = NoChallenge THEN 0 ELSE 1)]
      /\ UNCHANGED <<registered, challenge, held, given, clean>>
  BY DEF SetToken
<1>3. /\ u \in Users
      /\ job' \in [Workers -> Jobs] /\ job'[w].token = t /\ job'[w].user = u
      /\ \A v \in Workers \ {w} : job'[v] = job[v]
  BY <1>1, <1>2 DEF TypeOK, BusyInv, Jobs
<1>4. /\ Cardinality(drawn') = Cardinality(drawn) + 1
      /\ Cardinality(drawn) \in Nat
      /\ Cardinality(drawn') <= Cardinality(Tokens) /\ Cardinality(Tokens) \in Nat
  <2>1. IsFiniteSet(Tokens) /\ drawn' \subseteq Tokens /\ IsFiniteSet(drawn)
    BY <1>1, LoginAssumption, FS_Subset DEF TypeOK
  <2> QED
    BY <1>1, <2>1, FS_AddElement, FS_Subset, FS_CardinalityType
<1>5. DrawnInv' /\ uses' \in [Users -> 0..Cardinality(Tokens)]
  <2>1. ASSUME NEW v \in Users PROVE uses'[v] \in Nat /\ uses'[v] <= Cardinality(drawn')
    BY <1>2, <1>3, <1>4 DEF DrawnInv, TypeOK
  <2>2. uses' = [v \in Users |-> uses'[v]]
    BY <1>2 DEF TypeOK
  <2> QED
    BY <1>4, <2>1, <2>2 DEF DrawnInv
<1>6. TypeOK'
  BY <1>1, <1>2, <1>3, <1>5 DEF TypeOK
<1>7. BusyInv'
  BY <1>2, <1>3 DEF BusyInv, TypeOK
<1>8. TokenInv' /\ AnsweredTokenWorks'
  BY <1>1, <1>2, <1>3 DEF TokenInv, AnsweredTokenWorks, getUserIdByToken, TypeOK
<1> QED
  BY <1>5, <1>6, <1>7, <1>8

(* A worker that returns forgets its user and its token.                   *)
LEMMA TypeReturn ==
  ASSUME TypeInv, NEW w \in Workers, AnswerPre(w) \/ AnswerLogin(w) \/ ReplyFails(w)
  PROVE  TypeInv'
<1> USE DEF TypeInv
<1>1. /\ step[w] \in {"answerPre", "answer"} /\ step' = [step EXCEPT ![w] = "idle"]
      /\ job' = [job EXCEPT ![w] = NoJob]
      /\ UNCHANGED <<registered, challenge, owner, drawn, uses>>
  BY DEF AnswerPre, AnswerLogin, ReplyFails, Return, Goto
<1>2. NoJob \in Jobs
  BY DEF NoJob, Jobs
<1>3. TypeOK'
  <2>1. job[w].user \in Users
    BY <1>1 DEF TypeOK, BusyInv, Jobs
  <2>2. held' \in [Users -> Challenges \cup {NoChallenge}] /\ clean' \subseteq Users
    BY <2>1 DEF TypeOK, Jobs, AnswerPre, AnswerLogin, ReplyFails
  <2>3. given' \in [Tokens -> Users \cup {NoUser}]
    BY <2>1 DEF TypeOK, Jobs, AnswerPre, AnswerLogin, ReplyFails
  <2> QED
    BY <1>1, <1>2, <2>2, <2>3 DEF TypeOK
<1>4. BusyInv' /\ DrawnInv'
  BY <1>1 DEF BusyInv, DrawnInv, TypeOK, NoJob
<1>5. \/ given' = given
      \/ /\ job[w].token # NoToken
         /\ given' = [given EXCEPT ![job[w].token] = job[w].user]
  BY DEF AnswerPre, AnswerLogin, ReplyFails
<1>6. TokenInv' /\ AnsweredTokenWorks'
  BY <1>1, <1>5 DEF TokenInv, AnsweredTokenWorks, getUserIdByToken, TypeOK, NoJob
<1> QED
  BY <1>3, <1>4, <1>6

(* The steps that draw no token and end no request.                        *)
LEMMA TypeOther ==
  ASSUME TypeInv,
         \/ \E w \in Workers : SetChallenge(w) \/ Verify(w) \/ DelChallenge(w)
         \/ \E u \in Users : Register(u)
         \/ Restart
  PROVE  TypeInv'
<1> USE DEF TypeInv, Goto
<1>1. ASSUME NEW u \in Users, Register(u) PROVE TypeInv'
  BY <1>1 DEF Register, TypeOK, BusyInv, TokenInv, DrawnInv, AnsweredTokenWorks,
              getUserIdByToken
<1>2. ASSUME NEW w \in Workers, SetChallenge(w) PROVE TypeInv'
  <2>1. PICK c \in Challenges : /\ challenge' = [challenge EXCEPT ![job[w].user] = c]
                                /\ job' = [job EXCEPT ![w].challenge = c]
    BY <1>2 DEF SetChallenge
  <2>2. /\ job' \in [Workers -> Jobs]
        /\ \A v \in Workers : job'[v].user = job[v].user /\ job'[v].token = job[v].token
    BY <2>1 DEF TypeOK, Jobs
  <2>3. /\ step[w] = "setChallenge" /\ step' = [step EXCEPT ![w] = "answerPre"]
        /\ uses' = [uses EXCEPT ![job[w].user] = 0]
        /\ UNCHANGED <<registered, owner, drawn, held, given, clean>>
    BY <1>2 DEF SetChallenge
  <2>4. 0 \in 0..Cardinality(Tokens) /\ Cardinality(drawn) \in Nat
    BY LoginAssumption, FS_Subset, FS_CardinalityType DEF TypeOK
  <2>5. TypeOK'
    BY <2>1, <2>2, <2>3, <2>4 DEF TypeOK
  <2>6. BusyInv' /\ TokenInv' /\ DrawnInv' /\ AnsweredTokenWorks'
    BY <2>2, <2>3, <2>4 DEF TypeOK, BusyInv, TokenInv, DrawnInv,
                            AnsweredTokenWorks, getUserIdByToken
  <2> QED
    BY <2>5, <2>6
<1>3. ASSUME NEW w \in Workers, Verify(w) \/ DelChallenge(w) PROVE TypeInv'
  <2>1. TypeOK'
    BY <1>3 DEF Verify, DelChallenge, TypeOK
  <2>2. BusyInv' /\ TokenInv' /\ DrawnInv' /\ AnsweredTokenWorks'
    BY <1>3 DEF Verify, DelChallenge, TypeOK, BusyInv, TokenInv, DrawnInv,
                AnsweredTokenWorks, getUserIdByToken
  <2> QED
    BY <2>1, <2>2
<1>4. CASE Restart
  <2>1. 0 \in 0..Cardinality(Tokens) /\ Cardinality(drawn) \in Nat
    BY LoginAssumption, FS_Subset, FS_CardinalityType DEF TypeOK
  <2>2. TypeOK'
    BY <1>4, <2>1 DEF Restart, TypeOK, Jobs, NoJob
  <2>3. BusyInv' /\ TokenInv' /\ DrawnInv' /\ AnsweredTokenWorks'
    BY <1>4, <2>1 DEF Restart, BusyInv, TokenInv, DrawnInv, AnsweredTokenWorks, NoJob
  <2> QED
    BY <2>2, <2>3
<1> QED
  BY <1>1, <1>2, <1>3, <1>4

(* TypeInv, all steps together.                                            *)
LEMMA TypeNext == TypeInv /\ [Next]_vars => TypeInv'
<1> SUFFICES ASSUME TypeInv, [Next]_vars PROVE TypeInv'
  OBVIOUS
<1>1. ASSUME NEW w \in Workers, NEW u \in Users,
             \/ LoginPre(w, u)
             \/ \E c \in Challenges \cup {NoChallenge}, right \in BOOLEAN :
                  LoginRequest(w, u, c, right)
      PROVE  TypeInv'
  BY <1>1, RequestStep, TypeRequest DEF TypeInv
<1>2. ASSUME NEW w \in Workers,
             \/ SetChallenge(w) \/ AnswerPre(w)
             \/ Verify(w) \/ SetToken(w) \/ DelChallenge(w) \/ AnswerLogin(w)
             \/ ReplyFails(w)
      PROVE  TypeInv'
  BY <1>2, TypeSetToken, TypeReturn, TypeOther
<1>3. CASE Restart \/ \E u \in Users : Register(u)
  BY <1>3, TypeOther
<1>4. CASE UNCHANGED vars
  BY <1>4 DEF vars, TypeInv, TypeOK, BusyInv, TokenInv, DrawnInv, AnsweredTokenWorks,
              getUserIdByToken
<1> QED
  BY <1>1, <1>2, <1>3, <1>4 DEF Next
-----------------------------------------------------------------------------
(* A request does not change what was used.                                *)
LEMMA OnceRequest ==
  ASSUME TypeInv, OnceInv, NEW w \in Workers, NEW u \in Users, NEW l, NEW j,
         RequestBegins(w, u, l, j)
  PROVE  OnceInv'
<1> USE DEF TypeInv, OnceInv
<1>1. /\ step[w] = "idle" /\ step' = [step EXCEPT ![w] = l]
      /\ job'[w].user = u
      /\ \A v \in Workers \ {w} : SameJob(job'[v], job[v])
  BY BeginJob DEF RequestBegins, SameJob
<1>2. job[w].user \notin Patient
  BY <1>1, LoginAssumption DEF BusyInv
<1>3. OneRequest'
  BY <1>1 DEF OneRequest, RequestBegins, SameJob, Busy
<1>4. UnusedInv'
  BY <1>1, <1>2 DEF UnusedInv, RequestBegins, SameJob, TypeOK
<1>5. ChallengeUsedOnce'
  BY DEF ChallengeUsedOnce, RequestBegins
<1> QED
  BY <1>3, <1>4, <1>5

(* Only the worker that found an unused challenge right makes use of it.   *)
LEMMA OnceStep ==
  ASSUME TypeInv, OnceInv, NEW w \in Workers,
         \/ SetChallenge(w) \/ AnswerPre(w)
         \/ Verify(w) \/ SetToken(w) \/ DelChallenge(w) \/ AnswerLogin(w)
         \/ ReplyFails(w)
  PROVE  OnceInv'
<1> USE DEF TypeInv, OnceInv, Goto
<1> DEFINE u == job[w].user
<1>1. u \in Users
  BY DEF SetChallenge, AnswerPre, Verify, SetToken, DelChallenge, AnswerLogin,
         ReplyFails, BusyInv, TypeOK, Jobs
<1>2. CASE SetChallenge(w)
  <2>1. PICK c \in Challenges : /\ challenge' = [challenge EXCEPT ![u] = c]
                                /\ job' = [job EXCEPT ![w].challenge = c]
    BY <1>2 DEF SetChallenge
  <2>2. \A v \in Workers : job'[v].user = job[v].user
                           /\ (v # w => job'[v] = job[v])
    BY <2>1 DEF TypeOK, Jobs
  <2>3. /\ step[w] = "setChallenge" /\ step' = [step EXCEPT ![w] = "answerPre"]
        /\ uses' = [uses EXCEPT ![u] = 0]
    BY <1>2 DEF SetChallenge
  <2>4. OneRequest'
    BY <2>2 DEF OneRequest
  <2>5. UnusedInv'
    BY <2>1, <2>2, <2>3, LoginAssumption DEF UnusedInv, TypeOK
  <2>6. ChallengeUsedOnce'
    BY <2>3, LoginAssumption DEF ChallengeUsedOnce, TypeOK
  <2> QED
    BY <2>4, <2>5, <2>6
<1>3. CASE AnswerPre(w) \/ AnswerLogin(w) \/ ReplyFails(w)
  <2>1. /\ step[w] \in {"answerPre", "answer"} /\ step' = [step EXCEPT ![w] = "idle"]
        /\ job' = [job EXCEPT ![w] = NoJob]
        /\ UNCHANGED <<challenge, uses>>
    BY <1>3 DEF AnswerPre, AnswerLogin, ReplyFails, Return
  <2>2. NoJob.user \notin Patient
    BY LoginAssumption DEF NoJob
  <2>3. OneRequest'
    BY <2>1, <2>2 DEF OneRequest, TypeOK
  <2>4. UnusedInv'
    BY <2>1, <2>2 DEF UnusedInv, TypeOK
  <2>5. ChallengeUsedOnce'
    BY <2>1 DEF ChallengeUsedOnce
  <2> QED
    BY <2>3, <2>4, <2>5
<1>4. CASE Verify(w)
  <2>1. /\ step[w] = "verify" /\ step'[w] \in {"setToken", "delete"}
        /\ step'[w] = "setToken" => job[w].challenge = challenge[u]
        /\ \A v \in Workers \ {w} : step'[v] = step[v]
        /\ UNCHANGED <<challenge, uses, job>>
    BY <1>4 DEF Verify, TypeOK
  <2>2. OneRequest' /\ ChallengeUsedOnce'
    BY <2>1 DEF OneRequest, ChallengeUsedOnce
  <2>3. \A v \in Workers : u \in Patient /\ job[v].user = u => v = w
    BY DEF OneRequest
  <2>4. UnusedInv'
    BY <2>1, <2>3 DEF UnusedInv
  <2> QED
    BY <2>2, <2>4
<1>5. CASE SetToken(w)
  <2>1. PICK t \in Tokens \ drawn : job' = [job EXCEPT ![w].token = t]
    BY <1>5 DEF SetToken
  <2>2. \A v \in Workers : job'[v].user = job[v].user
                           /\ job'[v].challenge = job[v].challenge
    BY <2>1 DEF TypeOK, Jobs
  <2>3. /\ step[w] = "setToken" /\ step' = [step EXCEPT ![w] = "delete"]
        /\ uses' = [uses EXCEPT ![u] = @ + (IF job[w].challenge = NoChallenge THEN 0 ELSE 1)]
        /\ UNCHANGED challenge
    BY <1>5 DEF SetToken
  <2>4. OneRequest'
    BY <2>2 DEF OneRequest
  <2>5. \A v \in Users : v # u => uses'[v] = uses[v]
    BY <2>3 DEF TypeOK
  <2>6. u \in Patient => uses'[u] <= 1
    BY <1>1, <2>3 DEF TypeOK, UnusedInv, ChallengeUsedOnce
  <2>7. \A v \in Workers : u \in Patient /\ job[v].user = u => v = w
    BY DEF OneRequest
  <2>8. UnusedInv'
    BY <1>1, <2>2, <2>3, <2>5, <2>7, LoginAssumption DEF TypeOK, UnusedInv
  <2>9. ChallengeUsedOnce'
    BY <2>5, <2>6, LoginAssumption DEF ChallengeUsedOnce
  <2> QED
    BY <2>4, <2>8, <2>9
<1>6. CASE DelChallenge(w)
  <2>1. /\ step[w] = "delete" /\ step' = [step EXCEPT ![w] = "answer"]
        /\ challenge' = [challenge EXCEPT ![u] = NoChallenge]
        /\ UNCHANGED <<job, uses>>
    BY <1>6 DEF DelChallenge
  <2>2. OneRequest' /\ ChallengeUsedOnce'
    BY <2>1 DEF OneRequest, ChallengeUsedOnce
  <2>3. UnusedInv'
    BY <1>1, <2>1, LoginAssumption DEF UnusedInv, TypeOK
  <2> QED
    BY <2>2, <2>3
<1> QED
  BY <1>2, <1>3, <1>4, <1>5, <1>6

(* OnceInv, all steps together.                                            *)
LEMMA OnceNext == TypeInv /\ OnceInv /\ [Next]_vars => OnceInv'
<1> SUFFICES ASSUME TypeInv, OnceInv, [Next]_vars PROVE OnceInv'
  OBVIOUS
<1>1. ASSUME NEW w \in Workers, NEW u \in Users,
             \/ LoginPre(w, u)
             \/ \E c \in Challenges \cup {NoChallenge}, right \in BOOLEAN :
                  LoginRequest(w, u, c, right)
      PROVE  OnceInv'
  BY <1>1, RequestStep, OnceRequest DEF TypeInv
<1>2. CASE Restart
  BY <1>2, LoginAssumption DEF Restart, OnceInv, OneRequest, UnusedInv,
                               ChallengeUsedOnce, NoJob
<1>3. CASE UNCHANGED <<challenge, step, job, uses>>
  BY <1>3 DEF OnceInv, OneRequest, UnusedInv, ChallengeUsedOnce
<1> QED
  BY <1>1, <1>2, <1>3, OnceStep DEF Next, vars, Register
-----------------------------------------------------------------------------
(* A new request makes the others of its user unclean, and is clean itself *)
(* only if there are none.                                                 *)
LEMMA CleanRequest ==
  ASSUME TypeInv, CleanInv, NEW w \in Workers, NEW u \in Users, NEW l, NEW j,
         RequestBegins(w, u, l, j)
  PROVE  CleanInv'
<1> USE DEF TypeInv, CleanInv
<1>1. /\ step[w] = "idle" /\ step' = [step EXCEPT ![w] = l]
      /\ clean' = clean \ {u}
      /\ job' \in [Workers -> Jobs]
      /\ SameJob(job'[w], j) /\ (job'[w].clean <=> j.clean /\ ~Busy(u))
      /\ \A v \in Workers \ {w} :
           /\ SameJob(job'[v], job[v])
           /\ job'[v].clean <=> job[v].clean /\ job[v].user # u
  BY BeginJob DEF RequestBegins
<1>2. /\ j.user = u /\ j.token = NoToken
      /\ l \in {"setChallenge", "answerPre", "verify", "answer"}
      /\ UNCHANGED <<registered, challenge, held>>
      /\ l \in {"setChallenge", "verify"} => u \in registered
      /\ l = "answerPre" => j.challenge = NoChallenge
      /\ l \in {"verify", "answer"} /\ j.clean => u \in clean /\ j.challenge = held[u]
      /\ l = "answer" => u \notin registered
  BY DEF RequestBegins
<1>3. AloneInv'
  BY <1>1, <1>2, LoginAssumption DEF AloneInv, SameJob, Busy
<1>4. CleanJobInv'
  <2> SUFFICES ASSUME NEW v \in Workers, job'[v].clean
               PROVE  /\ step'[v] = "setChallenge" => job'[v].user \in registered
                      /\ step'[v] = "answerPre" /\ job'[v].challenge # NoChallenge =>
                           /\ job'[v].user \in registered
                           /\ challenge[job'[v].user] = job'[v].challenge
                      /\ step'[v] = "verify" => challenge[job'[v].user] = job'[v].challenge
                      /\ step'[v] \in {"delete", "answer"} /\ job'[v].right =>
                           job'[v].token # NoToken
    BY <1>2 DEF CleanJobInv
  <2>1. CASE v = w
    BY <1>1, <1>2, <2>1 DEF SameJob, CleanUserInv, TypeOK
  <2>2. CASE v # w
    BY <1>1, <2>2 DEF SameJob, CleanJobInv, TypeOK
  <2> QED
    BY <2>1, <2>2
<1>5. CleanUserInv'
  BY <1>1, <1>2 DEF CleanUserInv, Busy, SameJob
<1> QED
  BY <1>3, <1>4, <1>5

(* A step for one user changes nothing for another; a clean attempt has    *)
(* one worker.                                                             *)
LEMMA CleanStep ==
  ASSUME TypeInv, CleanInv, NEW w \in Workers,
         \/ SetChallenge(w) \/ AnswerPre(w)
         \/ Verify(w) \/ SetToken(w) \/ DelChallenge(w) \/ AnswerLogin(w)
         \/ ReplyFails(w)
  PROVE  CleanInv'
<1> USE DEF TypeInv, CleanInv, Goto
<1> DEFINE u == job[w].user
<1>1. u \in Users /\ Busy(u) /\ u \notin clean
  BY DEF SetChallenge, AnswerPre, Verify, SetToken, DelChallenge, AnswerLogin,
         ReplyFails, BusyInv, TypeOK, Jobs, Busy, CleanUserInv
<1>2. ASSUME NEW v \in Workers, job[v].clean PROVE v = w \/ job[v].user # u
  BY <1>2 DEF AloneInv
<1>3. CASE SetChallenge(w)
  <2>1. PICK c \in Challenges : /\ challenge' = [challenge EXCEPT ![u] = c]
                                /\ job' = [job EXCEPT ![w].challenge = c]
    BY <1>3 DEF SetChallenge
  <2>2. /\ job'[w].user = u /\ job'[w].challenge = c /\ (job'[w].clean <=> job[w].clean)
        /\ \A v \in Workers : v # w => job'[v] = job[v]
    BY <2>1 DEF TypeOK, Jobs
  <2>3. /\ step[w] = "setChallenge" /\ step' = [step EXCEPT ![w] = "answerPre"]
        /\ UNCHANGED <<registered, held, clean>>
    BY <1>3 DEF SetChallenge
  <2>4. AloneInv'
    BY <2>2 DEF AloneInv
  <2>5. CleanJobInv'
    BY <1>1, <1>2, <2>1, <2>2, <2>3 DEF CleanJobInv, TypeOK
  <2>6. CleanUserInv'
    BY <1>1, <2>1, <2>2, <2>3 DEF CleanUserInv, Busy, TypeOK
  <2> QED
    BY <2>4, <2>5, <2>6
<1>4. CASE AnswerPre(w)
  <2>1. /\ step[w] = "answerPre" /\ step' = [step EXCEPT ![w] = "idle"]
        /\ job' = [job EXCEPT ![w] = NoJob]
        /\ held' = [held EXCEPT ![u] = job[w].challenge]
        /\ clean' = IF job[w].clean /\ job[w].challenge # NoChallenge
                      THEN clean \cup {u} ELSE clean
        /\ UNCHANGED <<registered, challenge>>
    BY <1>4 DEF AnswerPre, Return
  <2>2. ~NoJob.clean /\ NoJob.user \notin Users
    BY LoginAssumption DEF NoJob
  <2>3. job'[w] = NoJob /\ \A v \in Workers : v # w => job'[v] = job[v]
    BY <2>1 DEF TypeOK
  <2>4. AloneInv'
    BY <2>2, <2>3 DEF AloneInv, NoJob
  <2>5. CleanJobInv'
    BY <2>1, <2>2, <2>3 DEF CleanJobInv, TypeOK
  <2>6. CleanUserInv'
    <3>1. CASE job[w].clean /\ job[w].challenge # NoChallenge
      <4>1. u \in registered /\ held'[u] = challenge[u]
        BY <1>1, <2>1, <3>1 DEF CleanJobInv, TypeOK
      <4>2. \A x \in Workers : job'[x].user # u
        BY <1>1, <2>2, <2>3, <3>1 DEF AloneInv, Busy
      <4>3. ASSUME NEW v \in clean PROVE v \in registered /\ held'[v] = challenge[v] /\ ~Busy(v)'
        BY <1>1, <2>1, <2>2, <2>3 DEF CleanUserInv, Busy, TypeOK
      <4> QED
        BY <2>1, <3>1, <4>1, <4>2, <4>3 DEF CleanUserInv, Busy
    <3>2. CASE ~(job[w].clean /\ job[w].challenge # NoChallenge)
      BY <1>1, <2>1, <2>2, <2>3, <3>2 DEF CleanUserInv, Busy, TypeOK
    <3> QED
      BY <3>1, <3>2
  <2> QED
    BY <2>4, <2>5, <2>6
<1>5. CASE AnswerLogin(w) \/ ReplyFails(w)
  <2>1. /\ step' = [step EXCEPT ![w] = "idle"]
        /\ job' = [job EXCEPT ![w] = NoJob]
        /\ UNCHANGED <<registered, challenge, held, clean>>
    BY <1>5 DEF AnswerLogin, ReplyFails, Return
  <2>2. ~NoJob.clean /\ NoJob.user \notin Users
    BY LoginAssumption DEF NoJob
  <2>3. job'[w] = NoJob /\ \A v \in Workers : v # w => job'[v] = job[v]
    BY <2>1 DEF TypeOK
  <2>4. AloneInv'
    BY <2>2, <2>3 DEF AloneInv, NoJob
  <2>5. CleanJobInv'
    BY <2>1, <2>2, <2>3 DEF CleanJobInv, TypeOK
  <2>6. CleanUserInv'
    BY <2>1, <2>2, <2>3 DEF CleanUserInv, Busy, TypeOK
  <2> QED
    BY <2>4, <2>5, <2>6
<1>6. CASE Verify(w)
  <2>1. /\ step[w] = "verify" /\ step'[w] \in {"setToken", "delete"}
        /\ job[w].right /\ job[w].challenge = challenge[u] => step'[w] = "setToken"
        /\ \A v \in Workers \ {w} : step'[v] = step[v]
        /\ UNCHANGED <<registered, challenge, job, held, clean>>
    BY <1>6 DEF Verify, TypeOK
  <2>2. AloneInv' /\ CleanUserInv'
    BY <2>1 DEF AloneInv, CleanUserInv, Busy
  <2>3. CleanJobInv'
    BY <2>1 DEF CleanJobInv
  <2> QED
    BY <2>2, <2>3
<1>7. CASE SetToken(w)
  <2>1. PICK t \in Tokens \ drawn : job' = [job EXCEPT ![w].token = t]
    BY <1>7 DEF SetToken
  <2>2. /\ job'[w].user = u /\ job'[w].token = t /\ (job'[w].clean <=> job[w].clean)
        /\ \A v \in Workers : v # w => job'[v] = job[v]
    BY <2>1 DEF TypeOK, Jobs
  <2>3. /\ step' = [step EXCEPT ![w] = "delete"]
        /\ UNCHANGED <<registered, challenge, held, clean>>
    BY <1>7 DEF SetToken
  <2>4. AloneInv' /\ CleanUserInv'
    BY <2>2, <2>3 DEF AloneInv, CleanUserInv, Busy
  <2>5. CleanJobInv'
    BY <2>2, <2>3, LoginAssumption DEF CleanJobInv, TypeOK
  <2> QED
    BY <2>4, <2>5
<1>8. CASE DelChallenge(w)
  <2>1. /\ step[w] = "delete" /\ step' = [step EXCEPT ![w] = "answer"]
        /\ challenge' = [challenge EXCEPT ![u] = NoChallenge]
        /\ UNCHANGED <<registered, job, held, clean>>
    BY <1>8 DEF DelChallenge
  <2>2. AloneInv'
    BY <2>1 DEF AloneInv
  <2>3. CleanJobInv'
    BY <1>1, <1>2, <2>1 DEF CleanJobInv, TypeOK
  <2>4. CleanUserInv'
    BY <1>1, <2>1 DEF CleanUserInv, Busy, TypeOK
  <2> QED
    BY <2>2, <2>3, <2>4
<1> QED
  BY <1>3, <1>4, <1>5, <1>6, <1>7, <1>8

(* CleanInv, all steps together.                                           *)
LEMMA CleanNext == TypeInv /\ CleanInv /\ [Next]_vars => CleanInv'
<1> SUFFICES ASSUME TypeInv, CleanInv, [Next]_vars PROVE CleanInv'
  OBVIOUS
<1> USE DEF CleanInv
<1>1. ASSUME NEW w \in Workers, NEW u \in Users,
             \/ LoginPre(w, u)
             \/ \E c \in Challenges \cup {NoChallenge}, right \in BOOLEAN :
                  LoginRequest(w, u, c, right)
      PROVE  CleanInv'
  BY <1>1, RequestStep, CleanRequest DEF TypeInv
<1>2. CASE Restart
  BY <1>2 DEF Restart, AloneInv, CleanJobInv, CleanUserInv, NoJob
<1>3. CASE /\ registered \subseteq registered'
           /\ UNCHANGED <<challenge, step, job, held, clean>>
  BY <1>3 DEF AloneInv, CleanJobInv, CleanUserInv, Busy
<1> QED
  BY <1>1, <1>2, <1>3, CleanStep DEF Next, vars, Register
-----------------------------------------------------------------------------
(* The inductive invariant.                                                *)
IInv == TypeInv /\ OnceInv /\ CleanInv

(* The inductive invariant holds initially.                                *)
LEMMA IInvInit == Init => IInv
<1> SUFFICES ASSUME Init PROVE IInv
  OBVIOUS
<1>1. OnceInv
  BY LoginAssumption DEF Init, OnceInv, OneRequest, UnusedInv, ChallengeUsedOnce, NoJob
<1>2. CleanInv
  BY DEF Init, CleanInv, AloneInv, CleanJobInv, CleanUserInv, NoJob
<1> QED
  BY <1>1, <1>2, TypeInit DEF IInv

(* Every step keeps the inductive invariant.                               *)
LEMMA IInvNext == IInv /\ [Next]_vars => IInv'
  BY TypeNext, OnceNext, CleanNext DEF IInv

(* The types are right in every reachable state.                           *)
THEOREM LoginTypes == Spec => []TypeOK
<1>1. IInv => TypeOK
  BY DEF IInv, TypeInv
<1> QED
  BY <1>1, IInvInit, IInvNext, PTL DEF Spec

(* A token that was answered to a user (Server.cpp:153-159) means him as   *)
(* long as the process runs, whatever other logins do to the pool.         *)
THEOREM AnsweredTokensWork == Spec => []AnsweredTokenWorks
<1>1. IInv => AnsweredTokenWorks
  BY DEF IInv, TypeInv
<1> QED
  BY <1>1, IInvInit, IInvNext, PTL DEF Spec

(* A challenge lets a user whose client makes one request at a time in     *)
(* once: the handler deletes it before it answers (Server.cpp:177-183).    *)
THEOREM ChallengesAreUsedOnce == Spec => []ChallengeUsedOnce
<1>1. IInv => ChallengeUsedOnce
  BY DEF IInv, OnceInv
<1> QED
  BY <1>1, IInvInit, IInvNext, PTL DEF Spec

(* The right password over the last challenge logs in a user for whom no   *)
(* other request is handled meanwhile, whatever the other users do and     *)
(* whatever earlier attempts of his own left behind (Server.cpp:93-186).   *)
THEOREM RightLoginsSucceed == Spec => []RightLoginSucceeds
<1>1. IInv => RightLoginSucceeds
  BY DEF IInv, CleanInv, CleanJobInv, RightLoginSucceeds
<1> QED
  BY <1>1, IInvInit, IInvNext, PTL DEF Spec
=============================================================================
