--------------------------- MODULE SurveyVoteProofs ---------------------------
(* Theorems about SurveyVote, for every set of categories and businesses,  *)
(* every list of candidates, both vote scopes, any number of POSTs and     *)
(* with or without duplicated deliveries.                                  *)
EXTENDS SurveyVote, TLAPS

USE NominatedAssumption, ScopeAssumption, DuplicatesAssumption,
    MaxPostsAssumption
USE DEF PaperOpen, VotedAfterConflict, PaperAfterConflict

LEMMA EmptyTypes == NoPost \in Post /\ NoAnswer \in Answer
BY DEF NoPost, Post, Statuses, NoAnswer, Answer, Kinds

LEMMA FilterType == ASSUME NEW votes PROVE Filter(votes) \subseteq Vote
BY DEF Filter

LEMMA InitTypeOK == Init => TypeOK
<1> SUFFICES ASSUME Init PROVE TypeOK
  OBVIOUS
<1>1. stage \in Stages /\ failure \in Failures /\ pc \in Awaits
  BY DEF Init, Stages, Failures, Awaits
<1>2. wire \in [PostIds -> Post] /\ answer \in Answer
  BY EmptyTypes DEF Init
<1>3. granted \in 0..MaxPosts /\ sentPosts \in 0..MaxPosts /\ first \in 1..(MaxPosts + 1)
  BY DEF Init
<1>4. attempt \in 0..Backoff
  BY DEF Init, Backoff
<1>5. /\ offered \subseteq Vote /\ selection \subseteq Vote /\ voted \subseteq Vote
      /\ conflicts \subseteq Vote /\ accepted \subseteq Vote
      /\ maybeDelivered \subseteq Vote /\ mine \subseteq Vote /\ ballot \subseteq Vote
      /\ awaited \subseteq PostIds /\ ledger \subseteq Vote
  BY DEF Init
<1>6. settled \in BOOLEAN
  BY DEF Init
<1>7. QED
  BY <1>1, <1>2, <1>3, <1>4, <1>5, <1>6 DEF TypeOK

LEMMA ReopenTypeOK == TypeOK /\ Reopen => TypeOK'
<1> SUFFICES ASSUME TypeOK, Reopen PROVE TypeOK'
  OBVIOUS
<1>1. stage' \in Stages /\ failure' \in Failures /\ pc' \in Awaits /\ attempt' \in 0..Backoff
  BY DEF Reopen, Stages, Failures, Awaits, Backoff
<1>2. first' \in 1..(MaxPosts + 1)
  BY DEF Reopen, TypeOK
<1>3. QED
  BY <1>1, <1>2, EmptyTypes DEF Reopen, TypeOK

LEMMA LoadTypeOK == TypeOK /\ (Reload \/ LoadNext) => TypeOK'
<1>1. TypeOK /\ Reload => TypeOK'
  BY DEF Reload, TypeOK, memory, network, Stages, Failures, Awaits, Backoff
<1>2. TypeOK /\ ReadAgain => TypeOK'
  BY DEF ReadAgain, TypeOK, state, memory, network, Awaits, Backoff
<1>3. TypeOK /\ EditionRead => TypeOK'
  BY DEF EditionRead, TypeOK, state, memory, network, Awaits, Backoff
<1>4. TypeOK /\ IdentityReady => TypeOK'
  BY DEF IdentityReady, TypeOK, state, memory, network, Awaits
<1>5. TypeOK /\ MyVotesRead => TypeOK'
  BY DEF MyVotesRead, TypeOK, state, memory, network, Awaits, Backoff
<1>6. TypeOK /\ MyVotesTokenRefused => TypeOK'
  BY DEF MyVotesTokenRefused, TypeOK, state, memory, network, Backoff
<1>7. TypeOK /\ CandidatesRead => TypeOK'
  <2> SUFFICES ASSUME TypeOK, CandidatesRead
               PROVE  TypeOK'
    OBVIOUS
  <2>1. offered' \subseteq Vote /\ selection' \subseteq Vote
    BY FilterType DEF CandidatesRead, TypeOK
  <2>2. stage' \in Stages /\ pc' \in Awaits /\ attempt' \in 0..Backoff
    BY DEF CandidatesRead, Stages, Awaits, Backoff
  <2>3. QED
    BY <2>1, <2>2 DEF CandidatesRead, TypeOK, network
<1>8. TypeOK /\ LoadStops => TypeOK'
  <2> SUFFICES ASSUME TypeOK, LoadStops
               PROVE  TypeOK'
    OBVIOUS
  <2>1. stage' \in Stages /\ failure' \in Failures
    BY DEF LoadStops, LoadEndings, LoadFailures, Gates, Stages, Failures
  <2>2. QED
    BY <2>1 DEF LoadStops, TypeOK, memory, network, Awaits, Backoff
<1>9. QED
  BY <1>1, <1>2, <1>3, <1>4, <1>5, <1>6, <1>7, <1>8 DEF LoadNext

LEMMA PaperTypeOK == TypeOK /\ PaperNext => TypeOK'
<1>1. ASSUME NEW v \in Nominated, TypeOK, Select(v)
      PROVE  TypeOK'
  BY <1>1 DEF Select, TypeOK, memory, calls, network, Failures
<1>2. TypeOK /\ MinDurationPasses => TypeOK'
  BY DEF MinDurationPasses, TypeOK, state, calls, network
<1>3. TypeOK /\ SubmitWarns => TypeOK'
  BY DEF SubmitWarns, TypeOK, memory, calls, network, Failures
<1>4. TypeOK /\ Submit => TypeOK'
  BY DEF Submit, TypeOK, memory, network, Stages, Failures, Awaits, Backoff
<1>5. TypeOK /\ VoteAgain => TypeOK'
  BY DEF VoteAgain, TypeOK, calls, network, Stages, Failures
<1>6. QED
  BY <1>1, <1>2, <1>3, <1>4, <1>5 DEF PaperNext

LEMMA SendTypeOK == TypeOK /\ SendNext => TypeOK'
<1>1. TypeOK /\ TokenGranted => TypeOK'
  BY DEF TokenGranted, TypeOK, state, memory, Awaits
<1>2. TypeOK /\ SendFails => TypeOK'
  <2> SUFFICES ASSUME TypeOK, SendFails
               PROVE  TypeOK'
    OBVIOUS
  <2>1. /\ stage' \in Stages /\ failure' \in Failures
        /\ pc' \in Awaits /\ attempt' \in 0..Backoff
        /\ ballot' \subseteq Vote /\ answer' \in Answer
    BY EmptyTypes DEF SendFails, LeaveSubmit, Stages, Gates, Failures, Awaits, Backoff
  <2>2. QED
    BY <2>1 DEF SendFails, TypeOK, memory
<1>3. TypeOK /\ SendPost => TypeOK'
  <2> SUFFICES ASSUME TypeOK, SendPost
               PROVE  TypeOK'
    OBVIOUS
  <2>1. sentPosts + 1 \in PostIds
    BY DEF SendPost, TypeOK, PostIds
  <2>2. [ballot |-> ballot, token |-> granted, status |-> "travelling"] \in Post
    BY DEF TypeOK, Post, Statuses
  <2>3. wire' \in [PostIds -> Post]
    BY <2>1, <2>2 DEF SendPost, TypeOK
  <2>4. QED
    BY <2>1, <2>3, EmptyTypes DEF SendPost, TypeOK, state, memory, Awaits, PostIds
<1>4. QED
  BY <1>1, <1>2, <1>3 DEF SendNext

(* What every answer does to a submission that leaves its await.           *)
LEMMA LeaveSubmitType ==
  ASSUME NEW s \in Stages, NEW f \in Failures, LeaveSubmit(s, f)
  PROVE  /\ stage' \in Stages /\ failure' \in Failures
         /\ pc' \in Awaits /\ attempt' \in 0..Backoff
         /\ ballot' \subseteq Vote /\ answer' \in Answer
BY EmptyTypes DEF LeaveSubmit, Awaits, Backoff

LEMMA ReceivesType ==
  ASSUME TypeOK, NEW kinds, Receives(kinds)
  PROVE  /\ mine' \subseteq Vote /\ awaited' \subseteq PostIds
         /\ granted' \in 0..MaxPosts /\ sentPosts' \in 0..MaxPosts
         /\ first' \in 1..(MaxPosts + 1) /\ wire' \in [PostIds -> Post]
         /\ ledger' \subseteq Vote
BY DEF Receives, TypeOK

LEMMA AnswerVotesType == TypeOK => answer.votes \subseteq Vote /\ answer.kind \in Kinds
BY DEF TypeOK, Answer

LEMMA OnSentType ==
  ASSUME NEW votes \in SUBSET Vote, NEW nowVoted \in SUBSET Vote, OnSent(votes, nowVoted)
  PROVE  /\ accepted' \subseteq Vote /\ voted' \subseteq Vote /\ offered' \subseteq Vote
         /\ selection' \subseteq Vote /\ conflicts' \subseteq Vote
         /\ stage' \in Stages /\ failure' \in Failures
         /\ pc' \in Awaits /\ attempt' \in 0..Backoff
         /\ ballot' \subseteq Vote /\ answer' \in Answer
<1>1. LeaveSubmit("sent", "none")
  BY DEF OnSent
<1>2. "sent" \in Stages /\ "none" \in Failures
  BY DEF Stages, Failures
<1>3. QED
  BY <1>1, <1>2, LeaveSubmitType, FilterType DEF OnSent

LEMMA ReceiveTypeOK == TypeOK /\ Receive => TypeOK'
<1> SUFFICES ASSUME TypeOK, Receive
             PROVE  TypeOK'
  OBVIOUS
<1> USE AnswerVotesType, ReceivesType
<1>1. CASE ReceiveAccepted
  <2>1. OnSent(ballot, IF answer.votes = {} THEN voted \cup ballot ELSE answer.votes)
    BY <1>1 DEF ReceiveAccepted
  <2>2. ballot \in SUBSET Vote
        /\ (IF answer.votes = {} THEN voted \cup ballot ELSE answer.votes) \in SUBSET Vote
    BY DEF TypeOK
  <2>3. QED
    BY <1>1, <2>1, <2>2, OnSentType DEF ReceiveAccepted, TypeOK
<1>2. CASE ReceiveReconciled
  <2>1. OnSent(ballot, voted \cup ballot)
    BY <1>2 DEF ReceiveReconciled
  <2>2. ballot \in SUBSET Vote /\ voted \cup ballot \in SUBSET Vote
    BY DEF TypeOK
  <2>3. QED
    BY <1>2, <2>1, <2>2, OnSentType DEF ReceiveReconciled, TypeOK
<1>3. CASE ReceiveConflict
  <2>1. LeaveSubmit("ready", "alreadyVoted") /\ "ready" \in Stages /\ "alreadyVoted" \in Failures
    BY <1>3 DEF ReceiveConflict, Stages, Failures
  <2>2. voted' \subseteq Vote /\ selection' \subseteq Vote /\ conflicts' \subseteq Vote
    BY <1>3 DEF ReceiveConflict, TypeOK
  <2>3. QED
    BY <1>3, <2>1, <2>2, LeaveSubmitType DEF ReceiveConflict, TypeOK
<1>4. CASE ReceiveTokenRefused
  BY <1>4, EmptyTypes DEF ReceiveTokenRefused, TypeOK, state, memory, Awaits, Backoff
<1>5. CASE ReceiveRefused
  <2>1. PICK f \in {"retryable", "final"} : LeaveSubmit("ready", f)
    BY <1>5 DEF ReceiveRefused
  <2>2. "ready" \in Stages /\ f \in Failures
    BY DEF Stages, Failures
  <2>3. \E kinds : Receives(kinds)
    BY <1>5 DEF ReceiveRefused
  <2>4. QED
    BY <1>5, <2>1, <2>2, <2>3, LeaveSubmitType DEF ReceiveRefused, TypeOK, memory
<1>6. CASE ReceiveGate
  <2>1. PICK s \in Gates \ {"unsupported"} : LeaveSubmit(s, "gate")
    BY <1>6 DEF ReceiveGate
  <2>2. s \in Stages /\ "gate" \in Failures
    BY DEF Stages, Failures
  <2>3. QED
    BY <1>6, <2>1, <2>2, LeaveSubmitType DEF ReceiveGate, TypeOK, memory
<1>7. CASE ReceiveServerError
  <2>1. PICK f \in {"retryable", "final"} : LeaveSubmit("ready", f)
    BY <1>7 DEF ReceiveServerError
  <2>2. "ready" \in Stages /\ f \in Failures
    BY DEF Stages, Failures
  <2>3. QED
    BY <1>7, <2>1, <2>2, LeaveSubmitType DEF ReceiveServerError, TypeOK
<1>8. CASE GiveUp
  <2>1. LeaveSubmit("ready", "retryable") /\ "ready" \in Stages /\ "retryable" \in Failures
    BY <1>8 DEF GiveUp, Stages, Failures
  <2>2. QED
    BY <1>8, <2>1, LeaveSubmitType DEF GiveUp, TypeOK
<1>9. QED
  BY <1>1, <1>2, <1>3, <1>4, <1>5, <1>6, <1>7, <1>8 DEF Receive

(* What becomes of a POST and of its answer, whatever the server decides.  *)
LEMMA ServerTypeOK == TypeOK /\ ServerNext => TypeOK'
<1> SUFFICES ASSUME TypeOK, NEW i \in PostIds,
                    \/ ServerCounts(i) \/ ServerConflicts(i)
                    \/ ServerRefuses(i) \/ ServerReplays(i)
             PROVE  TypeOK'
  BY DEF ServerNext
<1>1. ASSUME NEW status \in Statuses, Handles(i, status)
      PROVE  wire' \in [PostIds -> Post]
  <2>1. [wire[i] EXCEPT !.status = status] \in Post
    BY DEF TypeOK, Post
  <2>2. wire' = [wire EXCEPT ![i] = [wire[i] EXCEPT !.status = status]]
    BY <1>1 DEF Handles
  <2>3. QED
    BY <2>1, <2>2 DEF TypeOK
<1>2. ASSUME NEW kind \in Kinds, NEW votes \in SUBSET Vote, Answers(i, kind, votes)
      PROVE  answer' \in Answer
  BY <1>2 DEF Answers, TypeOK, Answer
<1>3. wire[i].ballot \subseteq Vote /\ Refused(i) \subseteq Vote
  BY DEF TypeOK, Post, Refused
<1>4. CASE ServerCounts(i)
  <2>1. wire' \in [PostIds -> Post]
    BY <1>1, <1>4 DEF ServerCounts, Statuses
  <2>2. ledger' \subseteq Vote
    BY <1>3, <1>4 DEF ServerCounts, TypeOK
  <2>3. answer' \in Answer
    BY <1>2, <1>4, <2>2 DEF ServerCounts, Kinds
  <2>4. QED
    BY <1>4, <2>1, <2>2, <2>3 DEF ServerCounts, Handles, TypeOK, state, memory, calls
<1>5. CASE ServerConflicts(i)
  <2>1. wire' \in [PostIds -> Post] /\ answer' \in Answer
    BY <1>1, <1>2, <1>3, <1>5 DEF ServerConflicts, Statuses, Kinds
  <2>2. QED
    BY <1>5, <2>1 DEF ServerConflicts, Handles, TypeOK, state, memory, calls
<1>6. CASE ServerRefuses(i)
  <2>1. wire' \in [PostIds -> Post] /\ answer' \in Answer
    BY <1>1, <1>2, <1>6 DEF ServerRefuses, Statuses, Kinds
  <2>2. QED
    BY <1>6, <2>1 DEF ServerRefuses, Handles, TypeOK, state, memory, calls
<1>7. CASE ServerReplays(i)
  <2>1. answer' \in Answer
    BY <1>2, <1>7 DEF ServerReplays, Kinds
  <2>2. QED
    BY <1>7, <2>1 DEF ServerReplays, TypeOK, state, memory, calls
<1>8. QED
  BY <1>4, <1>5, <1>6, <1>7

LEMMA StutterTypeOK == TypeOK /\ UNCHANGED vars => TypeOK'
BY DEF TypeOK, vars, state, memory, calls, network

LEMMA NextTypeOK == TypeOK /\ [Next]_vars => TypeOK'
BY ReopenTypeOK, LoadTypeOK, PaperTypeOK, SendTypeOK, ReceiveTypeOK, ServerTypeOK,
   StutterTypeOK DEF Next

(* The state of the survey page, of its suspended calls and of the network *)
(* is always well formed.                                                  *)
THEOREM TypeCorrect == Spec => []TypeOK
BY InitTypeOK, NextTypeOK, PTL DEF Spec

-----------------------------------------------------------------------------
(* The inductive invariant.  Each part is shown for every kind of step.    *)

LEMMA CallsStep == IInv /\ [Next]_vars => CallsMatchStage'
<1> SUFFICES ASSUME IInv, [Next]_vars
             PROVE  CallsMatchStage'
  OBVIOUS
<1> USE DEF IInv, CallsMatchStage, LoadAwaits, SubmitAwaits
<1>1. CASE Reopen
  BY <1>1 DEF Reopen
<1>2. CASE Reload
  BY <1>2 DEF Reload, TypeOK, network, Awaits
<1>3. CASE LoadNext
  <2>1. CASE ReadAgain \/ EditionRead \/ IdentityReady \/ MyVotesRead \/ MyVotesTokenRefused
    BY <2>1 DEF ReadAgain, EditionRead, IdentityReady, MyVotesRead, MyVotesTokenRefused,
                state, network
  <2>2. CASE CandidatesRead
    BY <2>2 DEF CandidatesRead, network
  <2>3. CASE LoadStops
    BY <2>3 DEF LoadStops, LoadEndings, Gates, network
  <2>4. QED
    BY <1>3, <2>1, <2>2, <2>3 DEF LoadNext
<1>4. CASE PaperNext
  <2>1. ASSUME NEW v \in Nominated, Select(v)
        PROVE  CallsMatchStage'
    BY <2>1 DEF Select, calls, network
  <2>2. CASE MinDurationPasses \/ SubmitWarns
    BY <2>2 DEF MinDurationPasses, SubmitWarns, state, calls, network
  <2>3. CASE Submit
    BY <2>3 DEF Submit, network
  <2>4. CASE VoteAgain
    BY <2>4 DEF VoteAgain, calls, network
  <2>5. QED
    BY <1>4, <2>1, <2>2, <2>3, <2>4 DEF PaperNext
<1>5. CASE SendNext
  <2>1. CASE TokenGranted
    BY <2>1 DEF TokenGranted, state
  <2>2. CASE SendFails
    BY <2>2 DEF SendFails, LeaveSubmit
  <2>3. CASE SendPost
    BY <2>3 DEF SendPost, state, TypeOK, PostIds
  <2>4. QED
    BY <1>5, <2>1, <2>2, <2>3 DEF SendNext
<1>6. CASE Receive
  <2>1. CASE ReceiveAccepted \/ ReceiveReconciled
    BY <2>1 DEF ReceiveAccepted, ReceiveReconciled, Receives, OnSent, LeaveSubmit
  <2>2. CASE ReceiveConflict \/ ReceiveRefused \/ ReceiveServerError \/ GiveUp
    BY <2>2 DEF ReceiveConflict, ReceiveRefused, ReceiveServerError, GiveUp, Receives,
                LeaveSubmit
  <2>3. CASE ReceiveTokenRefused
    BY <2>3 DEF ReceiveTokenRefused, Receives, state
  <2>4. CASE ReceiveGate
    BY <2>4 DEF ReceiveGate, Receives, LeaveSubmit, Gates
  <2>5. QED
    BY <1>6, <2>1, <2>2, <2>3, <2>4 DEF Receive
<1>7. CASE ServerNext
  BY <1>7 DEF ServerNext, ServerCounts, ServerConflicts, ServerRefuses, ServerReplays,
              Handles, state, calls
<1>8. CASE UNCHANGED vars
  BY <1>8 DEF vars, state, calls, network
<1>9. QED
  BY <1>1, <1>2, <1>3, <1>4, <1>5, <1>6, <1>7, <1>8 DEF Next

LEMMA AnswerStep == IInv /\ [Next]_vars => AnswerMatchesPost'
<1> SUFFICES ASSUME IInv, [Next]_vars
             PROVE  AnswerMatchesPost'
  OBVIOUS
<1> USE DEF IInv, AnswerMatchesPost, AllCounted, NoAnswer
<1>1. CASE Reopen
  BY <1>1 DEF Reopen
<1>2. CASE Reload \/ LoadNext \/ PaperNext
  <2>1. answer = NoAnswer /\ answer' = answer /\ pc' # "answer"
    BY <1>2 DEF CallsMatchStage, LoadAwaits, SubmitAwaits, Reload, LoadNext, ReadAgain,
                EditionRead, IdentityReady, MyVotesRead, MyVotesTokenRefused,
                CandidatesRead, LoadStops, PaperNext, Select, MinDurationPasses,
                SubmitWarns, Submit, VoteAgain, LoadEndings, calls, network
  <2>2. QED
    BY <2>1
<1>3. CASE SendNext
  <2>1. CASE TokenGranted
    BY <2>1 DEF TokenGranted
  <2>2. CASE SendFails
    BY <2>2 DEF SendFails, LeaveSubmit
  <2>3. CASE SendPost
    <3>1. sentPosts' = sentPosts + 1 /\ sentPosts' \in PostIds /\ ballot' = ballot
      BY <2>3 DEF SendPost, TypeOK, PostIds
    <3>2. wire'[sentPosts'].ballot = ballot'
      BY <2>3, <3>1 DEF SendPost, TypeOK
    <3>3. QED
      BY <2>3, <3>1, <3>2 DEF SendPost
  <2>4. QED
    BY <1>3, <2>1, <2>2, <2>3 DEF SendNext
<1>4. CASE Receive
  <2>1. answer' = NoAnswer /\ pc' # "answer"
    BY <1>4 DEF Receive, ReceiveAccepted, ReceiveReconciled, ReceiveConflict, ReceiveRefused,
                ReceiveServerError, GiveUp, ReceiveTokenRefused, ReceiveGate, OnSent,
                LeaveSubmit
  <2>2. QED
    BY <2>1
<1>5. CASE ServerNext
  <2> SUFFICES ASSUME NEW i \in PostIds,
                      \/ ServerCounts(i) \/ ServerConflicts(i)
                      \/ ServerRefuses(i) \/ ServerReplays(i)
               PROVE  AnswerMatchesPost'
    BY <1>5 DEF ServerNext
  <2>1. /\ pc' = pc /\ ballot' = ballot /\ sentPosts' = sentPosts
        /\ \A k \in PostIds : wire'[k].ballot = wire[k].ballot
    BY DEF ServerCounts, ServerConflicts, ServerRefuses, ServerReplays, Handles, calls,
           TypeOK, Post
  <2>2. ledger \subseteq ledger'
    BY DEF ServerCounts, ServerConflicts, ServerRefuses, ServerReplays
  <2>3. i \in awaited => i = sentPosts /\ pc = "answer" /\ wire[i].ballot = ballot
    BY DEF CallsMatchStage
  <2>4. pc' = "answer" => sentPosts' \in PostIds /\ wire'[sentPosts'].ballot = ballot'
    BY <2>1
  <2>5. CASE answer' = answer
    BY <2>1, <2>2, <2>4, <2>5 DEF Taken
  <2>6. CASE answer' # answer
    <3>1. i = sentPosts /\ pc = "answer" /\ wire[i].ballot = ballot
      BY <2>3, <2>6 DEF ServerCounts, ServerConflicts, ServerRefuses, ServerReplays, Answers
    <3>2. answer'.kind = "accepted" => AllCounted(ballot)' /\ AllCounted(answer.votes)'
      BY <2>1, <2>6, <3>1 DEF ServerCounts, ServerConflicts, ServerRefuses, ServerReplays,
                              Answers, Taken, SameSlot
    <3>3. answer'.kind = "conflict" => AllCounted(answer.votes)'
      BY <2>6, <3>1 DEF ServerCounts, ServerConflicts, ServerRefuses, ServerReplays,
                        Answers, Refused
    <3>4. QED
      BY <2>1, <2>4, <3>1, <3>2, <3>3
  <2>7. QED
    BY <2>5, <2>6
<1>6. CASE UNCHANGED vars
  BY <1>6 DEF vars, calls, network, Taken
<1>7. QED
  BY <1>1, <1>2, <1>3, <1>4, <1>5, <1>6 DEF Next

LEMMA PostsStep == IInv /\ [Next]_vars => PostsCarryVotes'
<1> SUFFICES ASSUME IInv, [Next]_vars
             PROVE  PostsCarryVotes'
  OBVIOUS
<1> USE DEF IInv, PostsCarryVotes
<1>1. CASE SendPost
  <2>1. ballot # {} /\ sentPosts + 1 \in PostIds
    BY <1>1 DEF SendPost, TypeOK, PostIds, CallsMatchStage, SubmitAwaits
  <2>2. QED
    BY <1>1, <2>1 DEF SendPost, TypeOK
<1>2. CASE ServerNext
  BY <1>2 DEF ServerNext, ServerCounts, ServerConflicts, ServerRefuses, ServerReplays,
              Handles, TypeOK, Post
<1>3. CASE ~SendPost /\ ~ServerNext
  <2>1. wire' = wire
    BY <1>3 DEF Next, Reopen, Reload, LoadNext, ReadAgain, EditionRead, IdentityReady,
           MyVotesRead, MyVotesTokenRefused, CandidatesRead, LoadStops, PaperNext, Select,
           MinDurationPasses, SubmitWarns, Submit, VoteAgain, SendNext, TokenGranted,
           SendFails, Receive, ReceiveAccepted, ReceiveReconciled, ReceiveConflict,
           ReceiveTokenRefused, ReceiveRefused, ReceiveGate, ReceiveServerError, GiveUp,
           Receives, network, vars
  <2>2. QED
    BY <2>1
<1>4. QED
  BY <1>1, <1>2, <1>3

LEMMA BeliefsStep == IInv /\ [Next]_vars => BeliefsAreCounted'
<1> SUFFICES ASSUME IInv, [Next]_vars
             PROVE  BeliefsAreCounted'
  OBVIOUS
<1> USE DEF IInv, BeliefsAreCounted, SentMeansCounted, AllCounted
<1>1. ledger \subseteq ledger'
  BY DEF Next, Reopen, Reload, LoadNext, ReadAgain, EditionRead, IdentityReady,
         MyVotesRead, MyVotesTokenRefused, CandidatesRead, LoadStops, PaperNext, Select,
         MinDurationPasses, SubmitWarns, Submit, VoteAgain, SendNext, TokenGranted,
         SendFails, SendPost, Receive, ReceiveAccepted, ReceiveReconciled, ReceiveConflict,
         ReceiveTokenRefused, ReceiveRefused, ReceiveGate, ReceiveServerError, GiveUp,
         Receives, ServerNext, ServerCounts, ServerConflicts, ServerRefuses, ServerReplays,
         vars
<1>2. ASSUME NEW v, Taken(ledger, v)
      PROVE  Taken(ledger, v)'
  BY <1>1, <1>2 DEF Taken, SameSlot
<1>3. CASE Reopen
  BY <1>3 DEF Reopen
<1>4. CASE Reload \/ LoadNext
  <2>1. CASE MyVotesRead
    BY <1>2, <2>1 DEF MyVotesRead, state, Taken, SameSlot
  <2>2. CASE CandidatesRead
    BY <1>2, <2>2 DEF CandidatesRead
  <2>3. CASE Reload \/ LoadStops
    BY <1>2, <2>3 DEF Reload, LoadStops, LoadEndings, Gates, CallsMatchStage, LoadAwaits
  <2>4. CASE ReadAgain \/ EditionRead \/ IdentityReady \/ MyVotesTokenRefused
    BY <1>2, <2>4 DEF ReadAgain, EditionRead, IdentityReady, MyVotesTokenRefused, state
  <2>5. QED
    BY <1>4, <2>1, <2>2, <2>3, <2>4 DEF LoadNext
<1>5. CASE PaperNext
  BY <1>2, <1>5 DEF PaperNext, Select, MinDurationPasses, SubmitWarns, Submit, VoteAgain,
                    calls, state
<1>6. CASE SendNext
  BY <1>2, <1>6 DEF SendNext, TokenGranted, SendFails, SendPost, LeaveSubmit, state
<1>7. CASE Receive
  <2>1. CASE ReceiveAccepted
    <3>1. AllCounted(ballot) /\ AllCounted(answer.votes) /\ ballot # {}
      BY <2>1 DEF ReceiveAccepted, Receives, AnswerMatchesPost, CallsMatchStage, SubmitAwaits
    <3>2. QED
      BY <1>2, <2>1, <3>1 DEF ReceiveAccepted, Receives, OnSent
  <2>2. CASE ReceiveReconciled
    <3>1. AllCounted(ballot) /\ ballot # {}
      BY <2>2 DEF ReceiveReconciled, Reconciled, Receives, AnswerMatchesPost, CallsMatchStage,
                  SubmitAwaits
    <3>2. QED
      BY <1>2, <2>2, <3>1 DEF ReceiveReconciled, Receives, OnSent
  <2>3. CASE ReceiveConflict
    <3>1. AllCounted(answer.votes)
      BY <2>3 DEF ReceiveConflict, Receives, AnswerMatchesPost
    <3>2. QED
      BY <1>2, <2>3, <3>1 DEF ReceiveConflict, Receives, LeaveSubmit
  <2>4. CASE ReceiveTokenRefused
    BY <1>2, <2>4 DEF ReceiveTokenRefused, Receives, state
  <2>5. CASE ReceiveRefused \/ ReceiveGate \/ ReceiveServerError \/ GiveUp
    <3>1. stage' # "sent" /\ voted' = voted /\ mine' = mine
      BY <2>5 DEF ReceiveRefused, ReceiveGate, ReceiveServerError, GiveUp, Receives,
                  LeaveSubmit, Gates
    <3>2. QED
      BY <1>2, <3>1
  <2>6. QED
    BY <1>7, <2>1, <2>2, <2>3, <2>4, <2>5 DEF Receive
<1>8. CASE ServerNext
  BY <1>2, <1>8 DEF ServerNext, ServerCounts, ServerConflicts, ServerRefuses, ServerReplays,
                    Handles, state, calls
<1>9. CASE UNCHANGED vars
  BY <1>2, <1>9 DEF vars, state, calls
<1>10. QED
  BY <1>3, <1>4, <1>5, <1>6, <1>7, <1>8, <1>9 DEF Next

LEMMA TokensStep == IInv /\ [Next]_vars => TokensInOrder'
<1> SUFFICES ASSUME IInv, [Next]_vars
             PROVE  TokensInOrder'
  OBVIOUS
<1> USE DEF IInv, TokensInOrder, FreshTokens
<1>1. \A i \in 1..sentPosts : wire[i].token \in Nat
  BY DEF TypeOK, PostIds, Post
<1>2. CASE SendPost
  <2>1. sentPosts' = sentPosts + 1 /\ sentPosts' \in PostIds /\ granted' = granted /\ pc' # "send"
    BY <1>2 DEF SendPost, TypeOK, PostIds
  <2>2. wire'[sentPosts'].token = granted
    BY <1>2, <2>1 DEF SendPost, TypeOK
  <2>3. \A i \in 1..sentPosts : wire'[i].token = wire[i].token /\ wire[i].token < granted
    BY <1>2, <2>1 DEF SendPost, TypeOK, PostIds
  <2>4. \A i \in 1..sentPosts' : i = sentPosts' \/ i \in 1..sentPosts
    BY <2>1 DEF TypeOK
  <2>5. granted \in Nat
    BY DEF TypeOK
  <2>6. QED
    BY <1>1, <2>1, <2>2, <2>3, <2>4, <2>5
<1>3. CASE TokenGranted
  <2>1. granted' = granted + 1 /\ granted \in Nat /\ sentPosts' = sentPosts /\ wire' = wire
    BY <1>3 DEF TokenGranted, TypeOK
  <2>2. QED
    BY <1>1, <2>1
<1>4. CASE ServerNext
  <2>1. \A i \in 1..sentPosts : wire'[i].token = wire[i].token
    <3>1. ASSUME NEW k \in PostIds, NEW status, Handles(k, status), NEW i \in PostIds
          PROVE  wire'[i].token = wire[i].token
      BY <3>1 DEF Handles, TypeOK, Post
    <3>2. 1..sentPosts \subseteq PostIds
      BY DEF TypeOK, PostIds
    <3>3. QED
      BY <1>4, <3>1, <3>2 DEF ServerNext, ServerCounts, ServerConflicts, ServerRefuses,
                              ServerReplays
  <2>2. pc' = pc /\ granted' = granted /\ sentPosts' = sentPosts
    BY <1>4 DEF ServerNext, ServerCounts, ServerConflicts, ServerRefuses, ServerReplays,
                Handles, calls
  <2>3. QED
    BY <2>1, <2>2
<1>5. CASE ~SendPost /\ ~TokenGranted /\ ~ServerNext
  <2>1. wire' = wire /\ granted' = granted /\ sentPosts' = sentPosts
    BY <1>5 DEF Next, Reopen, Reload, LoadNext, ReadAgain, EditionRead, IdentityReady,
           MyVotesRead, MyVotesTokenRefused, CandidatesRead, LoadStops, PaperNext, Select,
           MinDurationPasses, SubmitWarns, Submit, VoteAgain, SendNext, SendFails,
           Receive, ReceiveAccepted, ReceiveReconciled, ReceiveConflict,
           ReceiveTokenRefused, ReceiveRefused, ReceiveGate, ReceiveServerError, GiveUp,
           Receives, network, vars
  <2>2. pc' = "send" => pc = "send"
    BY <1>5 DEF Next, Reopen, Reload, LoadNext, ReadAgain, EditionRead, IdentityReady,
           MyVotesRead, MyVotesTokenRefused, CandidatesRead, LoadStops, PaperNext, Select,
           MinDurationPasses, SubmitWarns, Submit, VoteAgain, SendNext, SendFails,
           Receive, ReceiveAccepted, ReceiveReconciled, ReceiveConflict,
           ReceiveTokenRefused, ReceiveRefused, ReceiveGate, ReceiveServerError, GiveUp,
           OnSent, LeaveSubmit, calls, vars
  <2>3. QED
    BY <2>1, <2>2
<1>6. QED
  BY <1>2, <1>3, <1>4, <1>5

LEMMA InitIInv == Init => IInv
<1> SUFFICES ASSUME Init PROVE IInv
  OBVIOUS
<1>1. CallsMatchStage
  BY DEF Init, CallsMatchStage, LoadAwaits, SubmitAwaits
<1>2. AnswerMatchesPost
  BY DEF Init, AnswerMatchesPost, NoAnswer
<1>3. PostsCarryVotes /\ BeliefsAreCounted
  BY DEF Init, PostsCarryVotes, NoPost, BeliefsAreCounted, AllCounted, SentMeansCounted
<1>4. TokensInOrder
  BY DEF Init, TokensInOrder, FreshTokens
<1>5. QED
  BY <1>1, <1>2, <1>3, <1>4, InitTypeOK DEF IInv

(* The invariant behind the others: what is on screen, what is suspended,  *)
(* what is on the wire and what the server holds fit together.             *)
THEOREM Inductive == Spec => []IInv
<1>1. IInv /\ [Next]_vars => IInv'
  BY NextTypeOK, CallsStep, AnswerStep, PostsStep, BeliefsStep, TokensStep DEF IInv
<1>2. QED
  BY <1>1, InitIInv, PTL DEF Spec

(* Nobody reads "Gracias" for votes the server does not hold: neither the  *)
(* 201 nor the 409 taken for a success of _onConflict thanks too early.    *)
THEOREM ThanksAreTrue == Spec => []SentMeansCounted
<1>1. IInv => SentMeansCounted
  BY DEF IInv, BeliefsAreCounted
<1>2. QED
  BY <1>1, Inductive, PTL

(* The phone never takes for voted a place it has not voted for.           *)
THEOREM VotedIsTrue == Spec => []VotedIsCounted
<1>1. IInv => VotedIsCounted
  BY DEF IInv, BeliefsAreCounted, AllCounted, VotedIsCounted
<1>2. QED
  BY <1>1, Inductive, PTL

(* The ballot paper does not change while it travels.                      *)
THEOREM PaperIsFrozen == Spec => []SubmittedBallotIsFrozen
<1>1. IInv => SubmittedBallotIsFrozen
  BY DEF IInv, CallsMatchStage, SubmittedBallotIsFrozen
<1>2. QED
  BY <1>1, Inductive, PTL

(* No App Check token goes out twice: _withFreshToken asks before sending. *)
THEOREM TokensAreFresh == Spec => []FreshTokens
<1>1. IInv => FreshTokens
  BY DEF IInv, TokensInOrder
<1>2. QED
  BY <1>1, Inductive, PTL

(* Two POSTs of one page are never awaited at once, however often "send"   *)
(* and "retry" are pressed.                                                *)
THEOREM OneAtATime == Spec => []OnePostAwaited
<1>1. IInv => OnePostAwaited
  BY DEF IInv, CallsMatchStage, OnePostAwaited
<1>2. QED
  BY <1>1, Inductive, PTL

-----------------------------------------------------------------------------
(* What a 409 leaves on the paper.                                         *)

(* The reproach stays on the paper it was made for, and the conflicts on   *)
(* their way name whatever the page already knew to be voted.              *)
ReproachSound ==
  /\ failure = "alreadyVoted" => stage = "ready"
  /\ PaperAfterConflictIsClean
  /\ answer.kind = "conflict" => \A v \in ballot : Taken(voted, v) => v \in answer.votes

LEMMA InitReproach == Init => ReproachSound
BY DEF Init, ReproachSound, PaperAfterConflictIsClean, NoAnswer

LEMMA SlotsAreClasses ==
  ASSUME NEW v \in Vote, NEW votes \in SUBSET Vote, AllCounted(votes), Taken(votes, v)
  PROVE  Taken(ledger, v)
BY DEF AllCounted, Taken, SameSlot, Vote

LEMMA ReceiveReproach == IInv /\ ReproachSound /\ Receive => ReproachSound'
<1> SUFFICES ASSUME IInv, ReproachSound, Receive
             PROVE  ReproachSound'
  OBVIOUS
<1> USE DEF ReproachSound, PaperAfterConflictIsClean
<1>1. CASE ReceiveConflict
  <2>1. answer' = NoAnswer /\ stage' = "ready"
    BY <1>1 DEF ReceiveConflict, LeaveSubmit
  <2>2. selection = ballot /\ answer.kind = "conflict"
    BY <1>1 DEF ReceiveConflict, Receives, IInv, CallsMatchStage, SubmitAwaits
  <2>3. ASSUME NEW v \in selection' PROVE ~Taken(voted', v)
    <3>1. v \in ballot /\ \A c \in answer.votes : c.biz # v.biz
      BY <1>1, <2>2 DEF ReceiveConflict
    <3>2. v \notin answer.votes /\ ~Taken(voted, v)
      BY <2>2, <3>1
    <3>3. voted' = voted \cup answer.votes
      BY <1>1 DEF ReceiveConflict
    <3>4. QED
      BY <3>1, <3>2, <3>3 DEF Taken, SameSlot
  <2>4. QED
    BY <2>1, <2>3 DEF NoAnswer
<1>2. CASE ~ReceiveConflict
  <2>1. failure' # "alreadyVoted" \/ (failure' = failure /\ stage = "submitting")
    BY <1>2 DEF Receive, ReceiveAccepted, ReceiveReconciled, ReceiveTokenRefused,
                ReceiveRefused, ReceiveGate, ReceiveServerError, GiveUp, Receives, OnSent,
                LeaveSubmit, state, IInv, CallsMatchStage, SubmitAwaits
  <2>2. answer' = NoAnswer
    BY <1>2 DEF Receive, ReceiveAccepted, ReceiveReconciled, ReceiveTokenRefused,
                ReceiveRefused, ReceiveGate, ReceiveServerError, GiveUp, OnSent, LeaveSubmit
  <2>3. QED
    BY <2>1, <2>2 DEF NoAnswer
<1>3. QED
  BY <1>1, <1>2

LEMMA ServerReproach == IInv /\ ReproachSound /\ ServerNext => ReproachSound'
<1> SUFFICES ASSUME IInv, ReproachSound, NEW i \in PostIds,
                    \/ ServerCounts(i) \/ ServerConflicts(i)
                    \/ ServerRefuses(i) \/ ServerReplays(i)
             PROVE  ReproachSound'
  BY DEF ServerNext
<1> USE DEF ReproachSound, PaperAfterConflictIsClean
<1>1. UNCHANGED <<failure, stage, selection, voted, ballot>>
  BY DEF ServerCounts, ServerConflicts, ServerRefuses, ServerReplays, Handles, state, calls
<1>2. CASE answer' = answer
  BY <1>1, <1>2
<1>3. CASE answer' # answer /\ answer'.kind = "conflict"
  <2>1. ServerConflicts(i) /\ i \in awaited /\ answer'.votes = Refused(i)
    BY <1>3 DEF ServerCounts, ServerConflicts, ServerRefuses, ServerReplays, Answers
  <2>2. wire[i].ballot = ballot
    BY <2>1 DEF IInv, CallsMatchStage, AnswerMatchesPost
  <2>3. ASSUME NEW v \in ballot, Taken(voted, v) PROVE v \in answer'.votes
    <3>1. v \in Vote /\ voted \in SUBSET Vote /\ AllCounted(voted)
      BY DEF IInv, TypeOK, BeliefsAreCounted
    <3>2. Taken(ledger, v)
      BY <2>3, <3>1, SlotsAreClasses
    <3>3. QED
      BY <2>1, <2>2, <3>2 DEF Refused
  <2>4. QED
    BY <1>1, <2>3
<1>4. CASE answer'.kind # "conflict"
  BY <1>1, <1>4
<1>5. QED
  BY <1>2, <1>3, <1>4

LEMMA ReproachStep == IInv /\ ReproachSound /\ [Next]_vars => ReproachSound'
<1> SUFFICES ASSUME IInv, ReproachSound, [Next]_vars
             PROVE  ReproachSound'
  OBVIOUS
<1> USE DEF ReproachSound, PaperAfterConflictIsClean
<1>1. CASE Reopen \/ Reload
  <2>1. failure' = "none" /\ (answer' = NoAnswer \/ answer' = answer)
    BY <1>1 DEF Reopen, Reload, network
  <2>2. answer'.kind = "conflict" => Reload
    BY <1>1 DEF Reopen, NoAnswer
  <2>3. QED
    BY <2>1, <2>2 DEF Reload, network
<1>2. CASE LoadNext
  <2>1. stage = "loading" /\ answer = NoAnswer /\ answer' = answer
    BY <1>2 DEF IInv, CallsMatchStage, AnswerMatchesPost, LoadAwaits, LoadNext, ReadAgain,
                EditionRead, IdentityReady, MyVotesRead, MyVotesTokenRefused, CandidatesRead,
                LoadStops, LoadEndings, network
  <2>2. failure' # "alreadyVoted"
    BY <1>2, <2>1 DEF LoadNext, ReadAgain, EditionRead, IdentityReady, MyVotesRead,
                MyVotesTokenRefused, CandidatesRead, LoadStops, LoadFailures, state
  <2>3. QED
    BY <2>1, <2>2 DEF NoAnswer
<1>3. CASE PaperNext
  <2>1. answer = NoAnswer /\ answer' = answer
    BY <1>3 DEF IInv, CallsMatchStage, AnswerMatchesPost, SubmitAwaits, PaperNext, Select,
                MinDurationPasses, SubmitWarns, Submit, VoteAgain, calls, network
  <2>2. \/ failure' # "alreadyVoted"
        \/ UNCHANGED <<failure, stage, selection, voted>>
    BY <1>3 DEF PaperNext, Select, MinDurationPasses, SubmitWarns, Submit, VoteAgain, state
  <2>3. QED
    BY <2>1, <2>2 DEF NoAnswer
<1>4. CASE SendNext
  <2>1. answer' = answer \/ answer' = NoAnswer
    BY <1>4 DEF SendNext, TokenGranted, SendFails, SendPost, LeaveSubmit
  <2>2. answer = NoAnswer
    BY <1>4 DEF IInv, AnswerMatchesPost, SendNext, TokenGranted, SendFails, SendPost
  <2>3. \/ failure' # "alreadyVoted"
        \/ UNCHANGED <<failure, stage, selection, voted>>
    BY <1>4 DEF SendNext, TokenGranted, SendFails, SendPost, LeaveSubmit, state
  <2>4. QED
    BY <2>1, <2>2, <2>3 DEF NoAnswer
<1>5. CASE UNCHANGED vars
  BY <1>5 DEF vars, state, calls, network, Taken
<1>6. QED
  BY <1>1, <1>2, <1>3, <1>4, <1>5, ReceiveReproach, ServerReproach DEF Next

(* The paper a 409 leaves can be sent again: _onConflict has taken off     *)
(* every place the page knows to be voted, even those the list of          *)
(* candidates still offers.                                                *)
THEOREM ConflictsLeaveThePaper == Spec => []PaperAfterConflictIsClean
<1>1. IInv /\ ReproachSound /\ [Next]_vars => ReproachSound'
  BY ReproachStep
<1>2. ReproachSound => PaperAfterConflictIsClean
  BY DEF ReproachSound
<1>3. QED
  BY <1>1, <1>2, InitReproach, Inductive, PTL DEF Spec

-----------------------------------------------------------------------------
(* The retry of a ballot that was counted, when no POST is handled twice.  *)

(* The server can no longer count POST m.                                  *)
Doomed(m) == \E v \in wire[m].ballot : Taken(ledger, v)

(* The page will not put any vote of POST m on the paper again.            *)
Gone(m) ==
  \A v \in wire[m].ballot :
    /\ v \notin offered /\ v \notin selection /\ Taken(voted, v)
    /\ pc = "candidates" => Taken(mine, v)

(* What the server has said of a POST is so, and stays so.                 *)
PostsSound ==
  /\ \A i \in PostIds : wire[i].status = "counted" => wire[i].ballot \subseteq ledger
  /\ \A i \in PostIds : wire[i].status = "conflicted" => Doomed(i)
  /\ \A i, j \in PostIds :
       /\ wire[i].status = "counted" /\ wire[j].status = "counted"
       /\ wire[i].ballot = wire[j].ballot
       => i = j

(* The answer to the last POST tells what became of it, and the conflicts  *)
(* name the whole ballot if an earlier POST got it in.                     *)
AnswerSound ==
  /\ answer.kind # "none" => wire[sentPosts].status # "travelling"
  /\ answer.kind = "accepted" =>
       /\ wire[sentPosts].status = "counted"
       /\ answer.votes = {} \/ ballot \subseteq answer.votes
  /\ answer.kind = "conflict" =>
       /\ wire[sentPosts].status = "conflicted"
       /\ \A m \in PostIds :
            wire[m].status = "counted" /\ wire[m].ballot = ballot => ballot \subseteq answer.votes
  /\ answer.kind \in {"stale", "refused", "gate"} => wire[sentPosts].status = "refused"
  /\ answer.kind # "replayed"

(* While only "retry" is pressed, a ballot that got in, or still may, is   *)
(* the one the page remembers as cut, unless it has been thanked for or    *)
(* can no longer get in.                                                   *)
RetrySound ==
  \A m \in first..sentPosts :
    SameSince(m) /\ ~(m = sentPosts /\ pc = "answer") =>
      /\ wire[m].status = "counted" => maybeDelivered = wire[m].ballot \/ Gone(m)
      /\ wire[m].status = "travelling" => maybeDelivered = wire[m].ballot \/ Doomed(m)

(* With it the reproach of _onConflict never meets a counted ballot.       *)
RetryInv == PostsSound /\ AnswerSound /\ RetrySound

(* A step that neither sends a POST nor handles one.                       *)
LEMMA OtherSteps ==
  ASSUME IInv, [Next]_vars, ~SendPost, ~ServerNext
  PROVE  /\ wire' = wire /\ ledger' = ledger /\ sentPosts' = sentPosts
         /\ answer' = NoAnswer \/ (answer' = answer /\ ballot' = ballot)
<1> USE DEF IInv, AnswerMatchesPost, CallsMatchStage, LoadAwaits, SubmitAwaits
<1>1. CASE Reopen \/ Reload \/ LoadNext
  BY <1>1 DEF Reopen, Reload, LoadNext, ReadAgain, EditionRead, IdentityReady, MyVotesRead,
              MyVotesTokenRefused, CandidatesRead, LoadStops, network
<1>2. CASE PaperNext
  BY <1>2 DEF PaperNext, Select, MinDurationPasses, SubmitWarns, Submit, VoteAgain, calls,
              network
<1>3. CASE SendNext
  BY <1>3 DEF SendNext, TokenGranted, SendFails, LeaveSubmit
<1>4. CASE Receive
  BY <1>4 DEF Receive, ReceiveAccepted, ReceiveReconciled, ReceiveConflict,
              ReceiveTokenRefused, ReceiveRefused, ReceiveGate, ReceiveServerError, GiveUp,
              Receives, OnSent, LeaveSubmit
<1>5. CASE UNCHANGED vars
  BY <1>5 DEF vars, calls, network
<1>6. QED
  BY <1>1, <1>2, <1>3, <1>4, <1>5 DEF Next

(* A POST leaves; those before it are as they were.                        *)
LEMMA PostLeaves ==
  ASSUME IInv, SendPost
  PROVE  /\ sentPosts' = sentPosts + 1 /\ sentPosts \in Nat /\ sentPosts' \in PostIds
         /\ \A i \in PostIds : i # sentPosts' => wire'[i] = wire[i]
         /\ wire'[sentPosts'].ballot = ballot /\ wire'[sentPosts'].status = "travelling"
         /\ ballot = selection /\ ballot # {}
         /\ answer' = NoAnswer /\ pc = "send" /\ pc' = "answer" /\ first' = first
         /\ UNCHANGED <<ledger, voted, offered, selection, mine, maybeDelivered>>
BY DEF SendPost, IInv, TypeOK, PostIds, CallsMatchStage, SubmitAwaits, state, memory

(* The server handles a POST, once.                                        *)
LEMMA PostHandled ==
  ASSUME IInv, ~Duplicates, ServerNext
  PROVE  \E i \in PostIds :
           /\ ServerCounts(i) \/ ServerConflicts(i) \/ ServerRefuses(i)
           /\ wire[i].status = "travelling" /\ wire'[i].status \in {"counted", "conflicted", "refused"}
           /\ \A k \in PostIds : wire'[k].ballot = wire[k].ballot
           /\ \A k \in PostIds : k # i => wire'[k] = wire[k]
           /\ ledger \subseteq ledger'
           /\ UNCHANGED <<sentPosts, first, pc, ballot, voted, offered, selection, mine,
                          maybeDelivered>>
           /\ answer' = answer \/ (i = sentPosts /\ pc = "answer" /\ wire[i].ballot = ballot)
<1> PICK i \in PostIds : ServerCounts(i) \/ ServerConflicts(i) \/ ServerRefuses(i)
  BY DEF ServerNext, ServerReplays
<1>1. PICK status \in {"counted", "conflicted", "refused"} : Handles(i, status)
  BY DEF ServerCounts, ServerConflicts, ServerRefuses
<1>2. /\ wire[i].status = "travelling" /\ wire'[i].status = status
      /\ \A k \in PostIds : wire'[k].ballot = wire[k].ballot
      /\ \A k \in PostIds : k # i => wire'[k] = wire[k]
  BY <1>1 DEF Handles, IInv, TypeOK, Post
<1>3. UNCHANGED <<sentPosts, first, pc, ballot, voted, offered, selection, mine, maybeDelivered>>
  BY <1>1 DEF Handles, state, memory, calls
<1>4. ledger \subseteq ledger'
  BY DEF ServerCounts, ServerConflicts, ServerRefuses
<1>5. answer' = answer \/ (i = sentPosts /\ pc = "answer" /\ wire[i].ballot = ballot)
  BY DEF ServerCounts, ServerConflicts, ServerRefuses, Answers, IInv, CallsMatchStage,
         AnswerMatchesPost
<1>6. QED
  BY <1>1, <1>2, <1>3, <1>4, <1>5

LEMMA TakenGrows ==
  ASSUME NEW votes, NEW more, votes \subseteq more, NEW v, Taken(votes, v)
  PROVE  Taken(more, v)
BY DEF Taken

LEMMA OwnSlot == ASSUME NEW votes, NEW v \in votes PROVE Taken(votes, v)
BY DEF Taken, SameSlot

LEMMA PostsSoundStep ==
  ASSUME IInv, ~Duplicates, PostsSound, [Next]_vars
  PROVE  PostsSound'
<1> USE DEF PostsSound
<1>1. CASE SendPost
  BY <1>1, PostLeaves DEF Doomed
<1>2. CASE ServerNext
  <2>1. PICK i \in PostIds :
           /\ ServerCounts(i) \/ ServerConflicts(i) \/ ServerRefuses(i)
           /\ wire[i].status = "travelling" /\ wire'[i].status \in {"counted", "conflicted", "refused"}
           /\ \A k \in PostIds : wire'[k].ballot = wire[k].ballot
           /\ \A k \in PostIds : k # i => wire'[k] = wire[k]
           /\ ledger \subseteq ledger'
    BY <1>2, PostHandled
  <2>2. \A k \in PostIds : Doomed(k) => Doomed(k)'
    BY <2>1, TakenGrows DEF Doomed
  <2>3. CASE ServerCounts(i)
    <3>1. wire'[i].status = "counted" /\ ledger' = ledger \cup wire[i].ballot /\ Refused(i) = {}
      BY <2>3 DEF ServerCounts, Handles, IInv, TypeOK, Post
    <3>2. ~Doomed(i) /\ wire[i].ballot # {}
      BY <2>1, <3>1 DEF Refused, Doomed, IInv, PostsCarryVotes
    <3>3. \A k \in PostIds : wire[k].status = "counted" => wire[k].ballot # wire[i].ballot
      BY <3>2, OwnSlot DEF Doomed
    <3>4. QED
      BY <2>1, <2>2, <3>1, <3>3
  <2>4. CASE ServerConflicts(i)
    <3>1. wire'[i].status = "conflicted" /\ Doomed(i)
      BY <2>4 DEF ServerConflicts, Handles, IInv, TypeOK, Post, Refused, Doomed
    <3>2. QED
      BY <2>1, <2>2, <3>1
  <2>5. CASE ServerRefuses(i)
    <3>1. wire'[i].status = "refused"
      BY <2>5 DEF ServerRefuses, Handles, IInv, TypeOK, Post
    <3>2. QED
      BY <2>1, <2>2, <3>1
  <2>6. QED
    BY <2>1, <2>3, <2>4, <2>5
<1>3. CASE ~SendPost /\ ~ServerNext
  BY <1>3, OtherSteps DEF Doomed
<1>4. QED
  BY <1>1, <1>2, <1>3

LEMMA AnswerSoundStep ==
  ASSUME IInv, ~Duplicates, PostsSound, AnswerSound, [Next]_vars
  PROVE  AnswerSound'
<1> USE DEF AnswerSound, NoAnswer
<1>1. CASE SendPost
  BY <1>1, PostLeaves
<1>2. CASE ServerNext
  <2>1. PICK i \in PostIds :
           /\ ServerCounts(i) \/ ServerConflicts(i) \/ ServerRefuses(i)
           /\ wire[i].status = "travelling" /\ wire'[i].status \in {"counted", "conflicted", "refused"}
           /\ \A k \in PostIds : wire'[k].ballot = wire[k].ballot
           /\ \A k \in PostIds : k # i => wire'[k] = wire[k]
           /\ ledger \subseteq ledger'
           /\ UNCHANGED <<sentPosts, ballot>>
           /\ answer' = answer \/ (i = sentPosts /\ pc = "answer" /\ wire[i].ballot = ballot)
    BY <1>2, PostHandled
  <2>2. answer.kind # "none" => sentPosts \in PostIds /\ i # sentPosts
    BY <2>1 DEF IInv, AnswerMatchesPost
  <2>3. CASE answer' = answer
    <3>1. ASSUME answer.kind = "conflict", ServerCounts(i)
          PROVE  wire[i].ballot # ballot
      <4>1. Doomed(sentPosts) /\ wire[sentPosts].ballot = ballot
        BY <2>2, <3>1 DEF PostsSound, IInv, AnswerMatchesPost
      <4>2. ~Doomed(i)
        BY <3>1 DEF ServerCounts, Refused, Doomed
      <4>3. QED
        BY <4>1, <4>2 DEF Doomed
    <3>2. wire'[i].status = "counted" => ServerCounts(i)
      BY <2>1 DEF ServerConflicts, ServerRefuses, Handles, IInv, TypeOK, Post
    <3>3. answer.kind # "none" => wire'[sentPosts] = wire[sentPosts]
      BY <2>1, <2>2
    <3>4. \A m \in PostIds : wire'[m].status = "counted" =>
            wire[m].status = "counted" \/ (m = i /\ ServerCounts(i))
      BY <2>1, <3>2
    <3>5. QED
      BY <2>1, <2>3, <3>1, <3>3, <3>4
  <2>4. CASE answer' # answer
    <3>1. i = sentPosts /\ wire[i].ballot = ballot
      BY <2>1, <2>4
    <3>2. CASE ServerCounts(i)
      BY <2>1, <2>4, <3>1, <3>2 DEF ServerCounts, Handles, Answers, IInv, TypeOK, Post
    <3>3. CASE ServerConflicts(i)
      <4>1. /\ wire'[i].status = "conflicted"
            /\ answer' = [kind |-> "conflict", votes |-> Refused(i)]
        BY <2>4, <3>3 DEF ServerConflicts, Handles, Answers, IInv, TypeOK, Post
      <4>2. \A m \in PostIds : wire'[m].status = "counted" => wire[m].ballot \subseteq ledger
        BY <2>1, <4>1 DEF PostsSound
      <4>3. ASSUME NEW m \in PostIds, wire'[m].status = "counted", wire'[m].ballot = ballot
            PROVE  ballot \subseteq Refused(i)
        BY <2>1, <3>1, <4>2, <4>3, OwnSlot DEF Refused
      <4>4. QED
        BY <2>1, <3>1, <4>1, <4>3
    <3>4. CASE ServerRefuses(i)
      BY <2>1, <2>4, <3>1, <3>4 DEF ServerRefuses, Handles, Answers, IInv, TypeOK, Post
    <3>5. QED
      BY <2>1, <3>2, <3>3, <3>4
  <2>5. QED
    BY <2>3, <2>4
<1>3. CASE ~SendPost /\ ~ServerNext
  BY <1>3, OtherSteps
<1>4. QED
  BY <1>1, <1>2, <1>3

(* What every answer finds.                                                *)
LEMMA AnswerFinds ==
  ASSUME IInv, Receive
  PROVE  /\ pc = "answer" /\ pc' # "answer" /\ pc' # "candidates"
         /\ selection = ballot /\ ballot # {}
         /\ sentPosts \in PostIds /\ first \in Nat /\ first >= 1
         /\ UNCHANGED <<sentPosts, first, wire, ledger>>
         /\ \A m \in first..sentPosts :
              /\ m \in PostIds
              /\ SameSince(m) => wire[m].ballot = ballot /\ ~Gone(m)
<1>1. /\ pc = "answer" /\ pc' # "answer" /\ pc' # "candidates"
      /\ UNCHANGED <<sentPosts, first, wire, ledger>>
  BY DEF Receive, ReceiveAccepted, ReceiveReconciled, ReceiveConflict, ReceiveTokenRefused,
         ReceiveRefused, ReceiveGate, ReceiveServerError, GiveUp, Receives, OnSent, LeaveSubmit
<1>2. /\ selection = ballot /\ ballot # {}
      /\ sentPosts \in PostIds /\ wire[sentPosts].ballot = ballot
  BY <1>1 DEF IInv, CallsMatchStage, AnswerMatchesPost, SubmitAwaits
<1>3. first \in Nat /\ first >= 1 /\ sentPosts \in Nat /\ sentPosts <= MaxPosts
  BY DEF IInv, TypeOK
<1>4. ASSUME NEW m \in first..sentPosts
      PROVE  m \in PostIds /\ (SameSince(m) => wire[m].ballot = ballot /\ ~Gone(m))
  <2>1. m \in PostIds /\ sentPosts \in m..sentPosts
    BY <1>3, <1>4 DEF PostIds
  <2>2. QED
    BY <1>2, <2>1 DEF SameSince, Gone
<1>5. QED
  BY <1>1, <1>2, <1>3, <1>4

LEMMA RetryReceive ==
  ASSUME IInv, RetryInv, Receive
  PROVE  RetrySound'
<1>0. AnswerSound /\ PostsSound /\ RetrySound
  BY DEF RetryInv
<1>1. /\ pc = "answer" /\ pc' # "answer" /\ pc' # "candidates"
      /\ selection = ballot /\ ballot # {} /\ sentPosts \in PostIds
      /\ UNCHANGED <<sentPosts, first, wire, ledger>>
  BY AnswerFinds
<1> SUFFICES ASSUME NEW m \in first..sentPosts, SameSince(m)
             PROVE  /\ wire[m].status = "counted" => maybeDelivered' = wire[m].ballot \/ Gone(m)'
                    /\ wire[m].status = "travelling" => maybeDelivered' = wire[m].ballot \/ Doomed(m)
  BY <1>1 DEF RetrySound, SameSince, Doomed
<1>2. m \in PostIds /\ wire[m].ballot = ballot /\ ~Gone(m)
  BY AnswerFinds
<1>3. m # sentPosts => /\ wire[m].status = "counted" => maybeDelivered = ballot
                       /\ wire[m].status = "travelling" => maybeDelivered = ballot \/ Doomed(m)
  BY <1>0, <1>1, <1>2 DEF RetrySound
<1>4. CASE ReceiveAccepted
  <2>1. /\ answer.kind = "accepted" /\ wire[sentPosts].status = "counted" /\ AllCounted(ballot)
        /\ answer.votes = {} \/ ballot \subseteq answer.votes
    BY <1>0, <1>4 DEF ReceiveAccepted, Receives, AnswerSound, IInv, AnswerMatchesPost
  <2>2. selection' = {} /\ ballot \subseteq voted' /\ offered' = Filter(voted')
    BY <1>4, <2>1 DEF ReceiveAccepted, OnSent
  <2>3. Gone(m)'
    BY <1>1, <1>2, <2>2, OwnSlot DEF Gone, Filter
  <2>4. wire[m].status # "travelling" \/ Doomed(m)
    BY <1>1, <1>2, <2>1 DEF AllCounted, Doomed
  <2>5. QED
    BY <2>3, <2>4
<1>5. CASE ReceiveReconciled
  <2>1. /\ answer.kind = "conflict" /\ wire[sentPosts].status = "conflicted"
        /\ AllCounted(answer.votes) /\ ballot \subseteq answer.votes
    BY <1>0, <1>5 DEF ReceiveReconciled, Reconciled, Receives, AnswerSound, IInv,
                      AnswerMatchesPost
  <2>2. selection' = {} /\ ballot \subseteq voted' /\ offered' = Filter(voted')
    BY <1>5 DEF ReceiveReconciled, OnSent
  <2>3. Gone(m)'
    BY <1>1, <1>2, <2>2, OwnSlot DEF Gone, Filter
  <2>4. Doomed(m)
    BY <1>1, <1>2, <2>1 DEF AllCounted, Doomed
  <2>5. QED
    BY <2>3, <2>4
<1>6. CASE ReceiveConflict
  <2>1. /\ answer.kind = "conflict" /\ wire[sentPosts].status = "conflicted" /\ ~Reconciled
        /\ wire[m].status = "counted" => ballot \subseteq answer.votes
    BY <1>0, <1>2, <1>6 DEF ReceiveConflict, Receives, AnswerSound
  <2>2. wire[m].status # "counted"
    BY <1>3, <2>1 DEF Reconciled
  <2>3. Doomed(sentPosts) /\ wire[sentPosts].ballot = ballot
    BY <1>0, <1>1, <2>1 DEF PostsSound, IInv, AnswerMatchesPost
  <2>4. QED
    BY <1>2, <2>2, <2>3 DEF Doomed
<1>7. CASE ReceiveTokenRefused \/ ReceiveRefused \/ ReceiveGate
  <2>1. answer.kind \in {"stale", "refused", "gate"} /\ maybeDelivered' = maybeDelivered
    BY <1>0, <1>7 DEF ReceiveTokenRefused, ReceiveRefused, ReceiveGate, Receives, AnswerSound,
                      memory
  <2>2. wire[sentPosts].status = "refused"
    BY <1>0, <2>1 DEF AnswerSound
  <2>3. QED
    BY <1>2, <1>3, <2>1, <2>2
<1>8. CASE ReceiveServerError \/ GiveUp
  <2>1. maybeDelivered' = ballot
    BY <1>8 DEF ReceiveServerError, GiveUp
  <2>2. QED
    BY <1>2, <2>1
<1>9. QED
  BY <1>4, <1>5, <1>6, <1>7, <1>8 DEF Receive

(* Away from the wire the page keeps what it remembers as cut, and what is *)
(* gone from the paper does not come back.                                 *)
LEMMA RetryPage ==
  ASSUME IInv, RetryInv, Reload \/ LoadNext \/ PaperNext \/ TokenGranted \/ SendFails
  PROVE  RetrySound'
<1>1. /\ pc # "answer" /\ pc' # "answer"
      /\ UNCHANGED <<sentPosts, first, wire, ledger, maybeDelivered>>
  BY DEF IInv, CallsMatchStage, LoadAwaits, SubmitAwaits, Reload, LoadNext, ReadAgain,
         EditionRead, IdentityReady, MyVotesRead, MyVotesTokenRefused, CandidatesRead,
         LoadStops, PaperNext, Select, MinDurationPasses, SubmitWarns, Submit, VoteAgain,
         TokenGranted, SendFails, LeaveSubmit, LoadEndings, memory, calls, network
<1>2. ASSUME NEW m \in PostIds, wire[m].status = "counted", Gone(m)
      PROVE  Gone(m)'
  <2> SUFFICES ASSUME NEW v \in wire[m].ballot
               PROVE  /\ v \notin offered' /\ v \notin selection' /\ Taken(voted', v)
                      /\ pc' = "candidates" => Taken(mine', v)
    BY <1>1 DEF Gone
  <2>1. /\ v \notin offered /\ v \notin selection /\ Taken(voted, v)
        /\ pc = "candidates" => Taken(mine, v)
    BY <1>2 DEF Gone
  <2>2. Taken(ledger, v)
    BY <1>2, OwnSlot DEF RetryInv, PostsSound
  <2>3. CASE MyVotesRead
    BY <2>1, <2>2, <2>3 DEF MyVotesRead, state
  <2>4. CASE CandidatesRead
    BY <2>1, <2>4 DEF CandidatesRead, Filter
  <2>5. CASE ReadAgain \/ EditionRead \/ IdentityReady \/ MyVotesTokenRefused
    BY <2>1, <2>5 DEF ReadAgain, EditionRead, IdentityReady, MyVotesTokenRefused, state
  <2>6. CASE Reload \/ LoadStops
    BY <2>1, <2>6 DEF Reload, LoadStops
  <2>7. CASE PaperNext
    BY <2>1, <2>7 DEF PaperNext, Select, MinDurationPasses, SubmitWarns, Submit, VoteAgain,
                      calls, state
  <2>8. CASE TokenGranted \/ SendFails
    BY <2>1, <2>8 DEF TokenGranted, SendFails, LeaveSubmit, state
  <2>9. QED
    BY <2>3, <2>4, <2>5, <2>6, <2>7, <2>8 DEF LoadNext
<1>3. \A m \in first..sentPosts : m \in PostIds
  BY DEF IInv, TypeOK, PostIds
<1>4. QED
  BY <1>1, <1>2, <1>3 DEF RetryInv, RetrySound, SameSince, Doomed

LEMMA RetryPost ==
  ASSUME IInv, RetryInv, SendPost
  PROVE  RetrySound'
<1>1. /\ sentPosts' = sentPosts + 1 /\ sentPosts \in Nat /\ sentPosts' \in PostIds
      /\ \A i \in PostIds : i # sentPosts' => wire'[i] = wire[i]
      /\ wire'[sentPosts'].ballot = ballot
      /\ ballot = selection /\ ballot # {} /\ pc = "send" /\ pc' = "answer" /\ first' = first
      /\ UNCHANGED <<ledger, voted, offered, selection, mine, maybeDelivered>>
  BY PostLeaves
<1> SUFFICES ASSUME NEW m \in first'..sentPosts', SameSince(m)', m # sentPosts'
             PROVE  /\ wire'[m].status = "counted" =>
                         maybeDelivered' = wire'[m].ballot \/ Gone(m)'
                    /\ wire'[m].status = "travelling" =>
                         maybeDelivered' = wire'[m].ballot \/ Doomed(m)'
  BY <1>1 DEF RetrySound
<1>2. /\ m \in first..sentPosts /\ m \in PostIds /\ sentPosts' \in m..sentPosts'
      /\ \A k \in m..sentPosts : k \in PostIds /\ k \in m..sentPosts' /\ k # sentPosts'
  BY <1>1 DEF IInv, TypeOK, PostIds
<1>3. wire'[m] = wire[m] /\ wire[m].ballot = ballot
  BY <1>1, <1>2 DEF SameSince
<1>4. SameSince(m)
  BY <1>1, <1>2, <1>3 DEF SameSince
<1>5. ~Gone(m)
  BY <1>1, <1>3 DEF Gone
<1>6. /\ wire[m].status = "counted" => maybeDelivered = wire[m].ballot
      /\ wire[m].status = "travelling" => maybeDelivered = wire[m].ballot \/ Doomed(m)
  BY <1>1, <1>2, <1>4, <1>5 DEF RetryInv, RetrySound
<1>7. QED
  BY <1>1, <1>3, <1>6 DEF Doomed

LEMMA RetryServer ==
  ASSUME IInv, ~Duplicates, RetryInv, ServerNext
  PROVE  RetrySound'
<1>1. PICK i \in PostIds :
         /\ ServerCounts(i) \/ ServerConflicts(i) \/ ServerRefuses(i)
         /\ wire[i].status = "travelling" /\ wire'[i].status \in {"counted", "conflicted", "refused"}
         /\ \A k \in PostIds : wire'[k].ballot = wire[k].ballot
         /\ \A k \in PostIds : k # i => wire'[k] = wire[k]
         /\ ledger \subseteq ledger'
         /\ UNCHANGED <<sentPosts, first, pc, ballot, voted, offered, selection, mine,
                        maybeDelivered>>
  BY PostHandled
<1> SUFFICES ASSUME NEW m \in first..sentPosts, SameSince(m)', ~(m = sentPosts /\ pc = "answer")
             PROVE  /\ wire'[m].status = "counted" =>
                         maybeDelivered = wire[m].ballot \/ Gone(m)
                    /\ wire'[m].status = "travelling" =>
                         maybeDelivered = wire[m].ballot \/ Doomed(m)'
  <2>1. \A m \in first..sentPosts : m \in PostIds
    BY DEF IInv, TypeOK, PostIds
  <2>2. QED
    BY <1>1, <2>1 DEF RetrySound, Gone
<1>2. m \in PostIds /\ \A k \in m..sentPosts : k \in PostIds
  BY DEF IInv, TypeOK, PostIds
<1>3. SameSince(m)
  BY <1>1, <1>2 DEF SameSince
<1>4. /\ wire[m].status = "counted" => maybeDelivered = wire[m].ballot \/ Gone(m)
      /\ wire[m].status = "travelling" => maybeDelivered = wire[m].ballot \/ Doomed(m)
  BY <1>3 DEF RetryInv, RetrySound
<1>5. Doomed(m) => Doomed(m)'
  BY <1>1, <1>2, TakenGrows DEF Doomed
<1>6. CASE m # i
  BY <1>1, <1>2, <1>4, <1>5, <1>6
<1>7. CASE m = i
  <2>1. wire'[i].status # "travelling"
    BY <1>1
  <2>2. wire'[i].status = "counted" => ~Doomed(i)
    BY <1>1 DEF ServerCounts, ServerConflicts, ServerRefuses, Handles, Refused, Doomed, IInv,
                TypeOK, Post
  <2>3. QED
    BY <1>1, <1>4, <1>7, <2>1, <2>2
<1>8. QED
  BY <1>6, <1>7

LEMMA RetryStep ==
  ASSUME IInv, ~Duplicates, RetryInv, [Next]_vars
  PROVE  RetryInv'
<1>1. PostsSound' /\ AnswerSound'
  BY PostsSoundStep, AnswerSoundStep DEF RetryInv
<1>2. CASE Reopen
  <2>1. first' = sentPosts' + 1 /\ sentPosts' \in Nat
    BY <1>2 DEF Reopen, IInv, TypeOK
  <2>2. QED
    BY <1>1, <2>1 DEF RetryInv, RetrySound
<1>3. CASE UNCHANGED vars
  BY <1>1, <1>3 DEF RetryInv, RetrySound, SameSince, Gone, Doomed, vars, state, memory, calls,
                    network
<1>4. QED
  BY <1>1, <1>2, <1>3, RetryReceive, RetryPage, RetryPost, RetryServer
     DEF Next, SendNext, RetryInv

LEMMA InitRetry == Init => RetryInv
BY DEF Init, RetryInv, PostsSound, AnswerSound, RetrySound, NoPost, NoAnswer

(* A reproach is the answer to a 409 that is not taken for a success.      *)
LEMMA ReproachIsConflict ==
  ASSUME IInv, [Next]_vars, failure' = "alreadyVoted", failure # "alreadyVoted"
  PROVE  ReceiveConflict
<1>1. CASE Reopen \/ Reload \/ LoadNext
  BY <1>1 DEF Reopen, Reload, LoadNext, ReadAgain, EditionRead, IdentityReady, MyVotesRead,
              MyVotesTokenRefused, CandidatesRead, LoadStops, LoadFailures, state
<1>2. CASE PaperNext \/ SendNext
  BY <1>2 DEF PaperNext, Select, MinDurationPasses, SubmitWarns, Submit, VoteAgain, SendNext,
              TokenGranted, SendFails, SendPost, LeaveSubmit, state
<1>3. CASE Receive
  BY <1>3 DEF Receive, ReceiveAccepted, ReceiveReconciled, ReceiveTokenRefused,
              ReceiveRefused, ReceiveGate, ReceiveServerError, GiveUp, OnSent, LeaveSubmit, state
<1>4. CASE ServerNext
  BY <1>4 DEF ServerNext, ServerCounts, ServerConflicts, ServerRefuses, ServerReplays, Handles,
              state
<1>5. CASE UNCHANGED vars
  BY <1>5 DEF vars, state
<1>6. QED
  BY <1>1, <1>2, <1>3, <1>4, <1>5 DEF Next

(* _maybeDelivered does what it is for: while no POST is handled twice,    *)
(* "retry" after a ballot that got in never ends in the reproach of        *)
(* _onConflict, however many cuts, refused tokens, warnings and reloads    *)
(* come between, and however late the server counted it.                   *)
THEOREM RetriesAreNotRefused ==
  ASSUME ~Duplicates
  PROVE  Spec => RetryOfCountedBallotIsNotRefused
<1>1. IInv /\ RetryInv /\ [Next]_vars => RetryInv'
  BY RetryStep
<1>2. IInv /\ RetryInv /\ [Next]_vars => [~ReproachesACountedBallot]_vars
  <2> SUFFICES ASSUME IInv, RetryInv, [Next]_vars, ReproachesACountedBallot
               PROVE  FALSE
    OBVIOUS
  <2>1. ReceiveConflict /\ Receive
    BY ReproachIsConflict DEF ReproachesACountedBallot, Receive
  <2>2. PICK m \in first..sentPosts : wire[m].status = "counted" /\ SameSince(m)
    BY DEF ReproachesACountedBallot, CountedAndOnlyRetried
  <2>3. m \in PostIds /\ wire[m].ballot = ballot /\ ~Gone(m)
    BY <2>1, <2>2, AnswerFinds
  <2>4. /\ wire[sentPosts].status = "conflicted" /\ ~Reconciled
        /\ ballot \subseteq answer.votes
    BY <2>1, <2>2, <2>3 DEF ReceiveConflict, Receives, RetryInv, AnswerSound
  <2>5. maybeDelivered = ballot
    BY <2>2, <2>3, <2>4 DEF RetryInv, RetrySound
  <2>6. QED
    BY <2>4, <2>5 DEF Reconciled
<1>3. QED
  BY <1>1, <1>2, InitRetry, Inductive, PTL DEF Spec, RetryOfCountedBallotIsNotRefused

-----------------------------------------------------------------------------
(* The survey implements the ballot box.                                   *)

LEMMA SameTaken ==
  ASSUME NEW box, NEW v
  PROVE  Box!Taken(box, v) <=> Taken(box, v)
BY DEF Box!Taken, Box!SameSlot, Taken, SameSlot

LEMMA BoxStep == IInv /\ [Next]_vars => [Box!BoxNext]_(Box!boxVars)
<1> SUFFICES ASSUME IInv, [Next]_vars
             PROVE  Box!BoxNext \/ UNCHANGED Box!boxVars
  OBVIOUS
<1> DEFINE thanked == IF stage = "sent" THEN accepted ELSE {}
<1>1. ASSUME ledger' = ledger, thanked' = {}
      PROVE  Box!BoxNext
  BY <1>1 DEF Box!BoxNext, Box!Leave
<1>2. ASSUME OnSent(ballot, voted'), Receives(Kinds), AllCounted(ballot)
      PROVE  Box!BoxNext
  <2>1. thanked' = ballot /\ ledger' = ledger
    BY <1>2 DEF OnSent, LeaveSubmit, Receives
  <2>2. ballot # {} /\ ballot \in SUBSET Box!Vote
    BY <1>2 DEF Receives, IInv, CallsMatchStage, SubmitAwaits, TypeOK, Vote, Box!Vote
  <2>3. Box!Thank(ballot)
    BY <1>2, <2>1, <2>2, SameTaken DEF Box!Thank, AllCounted
  <2>4. QED
    BY <2>2, <2>3 DEF Box!BoxNext
<1>3. CASE Reopen \/ Reload \/ LoadNext
  <2>1. ledger' = ledger /\ stage' # "sent"
    BY <1>3 DEF Reopen, Reload, LoadNext, ReadAgain, EditionRead, IdentityReady, MyVotesRead,
                MyVotesTokenRefused, CandidatesRead, LoadStops, LoadEndings, Gates, state,
                IInv, CallsMatchStage, LoadAwaits
  <2>2. QED
    BY <1>1, <2>1
<1>4. CASE PaperNext
  <2>1. ledger' = ledger /\ stage' # "sent"
    BY <1>4 DEF PaperNext, Select, MinDurationPasses, SubmitWarns, Submit, VoteAgain, state
  <2>2. QED
    BY <1>1, <2>1
<1>5. CASE SendNext
  <2>1. ledger' = ledger /\ stage' # "sent"
    BY <1>5 DEF SendNext, TokenGranted, SendFails, SendPost, LeaveSubmit, state, IInv,
                CallsMatchStage, SubmitAwaits
  <2>2. QED
    BY <1>1, <2>1
<1>6. CASE Receive
  <2>1. CASE ReceiveAccepted
    <3>1. AllCounted(ballot)
      BY <2>1 DEF ReceiveAccepted, Receives, IInv, AnswerMatchesPost
    <3>2. OnSent(ballot, voted') /\ Receives(Kinds)
      BY <2>1 DEF ReceiveAccepted, OnSent, Receives, Kinds
    <3>3. QED
      BY <1>2, <3>1, <3>2
  <2>2. CASE ReceiveReconciled
    <3>1. AllCounted(ballot)
      BY <2>2 DEF ReceiveReconciled, Reconciled, Receives, IInv, AnswerMatchesPost, AllCounted
    <3>2. OnSent(ballot, voted') /\ Receives(Kinds)
      BY <2>2 DEF ReceiveReconciled, OnSent, Receives, Kinds
    <3>3. QED
      BY <1>2, <3>1, <3>2
  <2>3. CASE ReceiveTokenRefused
    <3>1. ledger' = ledger /\ stage' # "sent"
      BY <2>3 DEF ReceiveTokenRefused, Receives, state, IInv, CallsMatchStage, SubmitAwaits
    <3>2. QED
      BY <1>1, <3>1
  <2>4. CASE ReceiveConflict \/ ReceiveRefused \/ ReceiveGate \/ ReceiveServerError \/ GiveUp
    <3>1. ledger' = ledger /\ stage' # "sent"
      BY <2>4 DEF ReceiveConflict, ReceiveRefused, ReceiveGate, ReceiveServerError, GiveUp,
                  Receives, LeaveSubmit, Gates
    <3>2. QED
      BY <1>1, <3>1
  <2>5. QED
    BY <1>6, <2>1, <2>2, <2>3, <2>4 DEF Receive
<1>7. CASE ServerNext
  <2>1. thanked' = thanked
    BY <1>7 DEF ServerNext, ServerCounts, ServerConflicts, ServerRefuses, ServerReplays,
                Handles, state
  <2>2. PICK i \in PostIds : \/ ServerCounts(i) \/ ServerConflicts(i)
                             \/ ServerRefuses(i) \/ ServerReplays(i)
    BY <1>7 DEF ServerNext
  <2>3. CASE ServerCounts(i)
    <3> DEFINE b == wire[i].ballot
    <3>1. b # {} /\ b \in SUBSET Box!Vote
      BY <2>3 DEF ServerCounts, Handles, IInv, PostsCarryVotes, TypeOK, Post, Vote, Box!Vote
    <3>2. \A v, w \in b : Box!SameSlot(v, w) => v = w
      BY <2>3 DEF ServerCounts, Distinct, SameSlot, Box!SameSlot
    <3>3. \A v \in b : ~Box!Taken(ledger, v)
      BY <2>3, SameTaken DEF ServerCounts, Refused
    <3>4. Box!Count(b)
      BY <2>1, <2>3, <3>1, <3>2, <3>3 DEF ServerCounts, Box!Count
    <3>5. QED
      BY <3>1, <3>4 DEF Box!BoxNext
  <2>4. CASE ServerConflicts(i) \/ ServerRefuses(i) \/ ServerReplays(i)
    <3>1. ledger' = ledger
      BY <2>4 DEF ServerConflicts, ServerRefuses, ServerReplays
    <3>2. QED
      BY <2>1, <3>1 DEF Box!boxVars
  <2>5. QED
    BY <2>2, <2>3, <2>4
<1>8. CASE UNCHANGED vars
  BY <1>8 DEF vars, state, Box!boxVars
<1>9. QED
  BY <1>3, <1>4, <1>5, <1>6, <1>7, <1>8 DEF Next

(* Whatever is cut, repeated or abandoned on the way, the survey is a      *)
(* ballot box: a ballot is counted whole, a place gets one vote, and only  *)
(* counted ballots are thanked for.                                        *)
THEOREM Implements == Spec => KeepsThePromise
<1>1. Init => Box!BoxInit
  BY DEF Init, Box!BoxInit
<1>2. QED
  BY <1>1, BoxStep, Inductive, PTL DEF Spec, KeepsThePromise, Box!BoxSpec

=============================================================================
