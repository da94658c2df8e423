------------------------------ MODULE SurveyVote ------------------------------
(***************************************************************************)
(* SurveyVotePresenter (lib/ui/pages/survey_in_app): the life of a ballot  *)
(* of the awards survey on one phone, with the network it crosses and the  *)
(* server that counts it.                                                  *)
(*                                                                         *)
(* Every await of the presenter is a state of its own, so the page may be  *)
(* closed, a request may be cut and the server may answer between any two  *)
(* steps.  The server is external: only what the client relies on is       *)
(* modelled (docs/encuesta-antivoto.md: UNIQUE per business, a ballot is   *)
(* atomic, a vote token is consumed).                                      *)
(***************************************************************************)
EXTENDS Naturals

CONSTANTS
  Category, Business,
  Nominated,      \* the votes that can be cast: candidates of each category
  BusinessScope,  \* voteScope = business: one vote per business, anywhere
  Duplicates,     \* a POST may reach the server twice
  MaxPosts        \* bound: App Check tokens the quota grants, and POSTs

Vote == [cat : Category, biz : Business]

ASSUME NominatedAssumption == Nominated \subseteq Vote
ASSUME ScopeAssumption     == BusinessScope \in BOOLEAN
ASSUME DuplicatesAssumption == Duplicates \in BOOLEAN
ASSUME MaxPostsAssumption  == MaxPosts \in Nat

VARIABLES
  \* ---- SurveyVoteState
  stage, failure, offered, selection, voted, conflicts, accepted,
  \* ---- the rest of the presenter
  settled,        \* minDuration has passed since _startedAt
  maybeDelivered, \* _maybeDelivered; {} is null
  \* ---- its suspended calls
  pc,             \* what load() or submit() is waiting for
  attempt,        \* retries already spent on that wait
  mine,           \* local of load(): the answer of my-votes
  ballot,         \* local of submit(): the votes being sent
  awaited,        \* POSTs whose answer some call of this presenter awaits
  \* ---- App Check, the network and the server
  granted,        \* limited-use tokens handed out so far
  sentPosts,      \* POSTs that have left the phone
  first,          \* number of the first POST of the page now open
  wire,           \* POST number -> what was sent and what became of it
  answer,         \* the answer on its way to the last POST
  ledger          \* votes of this phone the server has counted

state    == <<stage, failure, offered, selection, voted, conflicts, accepted>>
calls    == <<pc, attempt, mine, ballot, awaited>>
memory   == <<settled, maybeDelivered>>
network  == <<granted, sentPosts, first, wire, answer>>
vars == <<state, memory, calls, network, ledger>>

Gates  == {"upcoming", "closed", "blocked", "upgradeRequired", "unsupported"}
Stages == {"loading", "ready", "submitting", "sent", "failed"} \cup Gates
Failures == {"none", "noSelection", "tooFast", "alreadyVoted",
             "retryable", "final", "gate"}
Awaits == {"nothing", "edition", "identity", "myVotes", "candidates",
           "token", "send", "answer"}

PostIds  == 1..MaxPosts
Statuses == {"unsent", "travelling", "refused", "conflicted", "counted"}
Post     == [ballot : SUBSET Vote, token : 0..MaxPosts, status : Statuses]
Kinds    == {"none", "accepted", "conflict", "stale", "replayed", "refused",
             "serverError", "gate"}
Answer   == [kind : Kinds, votes : SUBSET Vote]

NoPost   == [ballot |-> {}, token |-> 0, status |-> "unsent"]
NoAnswer == [kind |-> "none", votes |-> {}]

(* _backoff has two waits: a read is tried three times.                    *)
Backoff == 2

(* _isVoted, and the uniqueness the server enforces.                       *)
SameSlot(v, w) == v.biz = w.biz /\ (BusinessScope \/ v.cat = w.cat)
Taken(votes, v) == \E w \in votes : SameSlot(v, w)

(* _filter: the candidates that are left once votes are known.             *)
Filter(votes) == {v \in Nominated : ~Taken(votes, v)}

-----------------------------------------------------------------------------
(* A page opens with a new presenter and calls load() at once.             *)

Init ==
  /\ stage = "loading" /\ failure = "none"
  /\ offered = {} /\ selection = {} /\ voted = {}
  /\ conflicts = {} /\ accepted = {}
  /\ settled = FALSE /\ maybeDelivered = {}
  /\ pc = "edition" /\ attempt = 0 /\ mine = {} /\ ballot = {} /\ awaited = {}
  /\ granted = 0 /\ sentPosts = 0 /\ first = 1
  /\ wire = [i \in PostIds |-> NoPost] /\ answer = NoAnswer
  /\ ledger = {}

(* The page is closed, or the process dies, at any await, and the survey   *)
(* is opened again: a new presenter that knows nothing of what is still on *)
(* the wire.                                                               *)
Reopen ==
  /\ stage' = "loading" /\ failure' = "none"
  /\ offered' = {} /\ selection' = {} /\ voted' = {}
  /\ conflicts' = {} /\ accepted' = {}
  /\ settled' = FALSE /\ maybeDelivered' = {}
  /\ pc' = "edition" /\ attempt' = 0 /\ mine' = {} /\ ballot' = {}
  /\ awaited' = {} /\ first' = sentPosts + 1 /\ answer' = NoAnswer
  /\ UNCHANGED <<granted, sentPosts, wire, ledger>>

(* retry() outside the ballot paper: load() again.                         *)
Reload ==
  /\ stage \notin {"loading", "ready", "submitting"}
  /\ stage' = "loading" /\ failure' = "none"
  /\ conflicts' = {} /\ accepted' = {}
  /\ pc' = "edition" /\ attempt' = 0
  /\ UNCHANGED <<offered, selection, voted, memory, mine, ballot, awaited,
                 network, ledger>>

-----------------------------------------------------------------------------
(* load(), await by await.                                                 *)

(* Mutant: the waits start over when they run out.                         *)
ReadAgainInCircles ==
  /\ pc \in {"edition", "candidates"}
  /\ attempt' = (attempt + 1) % (Backoff + 1)
  /\ UNCHANGED <<state, memory, pc, mine, ballot, awaited, network, ledger>>

(* _retrying: a read without token failed in a way that waiting may cure.  *)
ReadAgain ==
  /\ pc \in {"edition", "candidates"} /\ attempt < Backoff
  /\ attempt' = attempt + 1
  /\ UNCHANGED <<state, memory, pc, mine, ballot, awaited, network, ledger>>

(* The edition is open and the app is recent enough for it.                *)
EditionRead ==
  /\ pc = "edition"
  /\ pc' = "identity" /\ attempt' = 0
  /\ UNCHANGED <<state, memory, mine, ballot, awaited, network, ledger>>

IdentityReady ==
  /\ pc = "identity"
  /\ pc' = "myVotes"
  /\ UNCHANGED <<state, memory, attempt, mine, ballot, awaited, network, ledger>>

(* my-votes is answered with what the server holds now; the candidates are *)
(* only asked for afterwards, so it may be old when it is used.            *)
MyVotesRead ==
  /\ pc = "myVotes"
  /\ mine' = ledger
  /\ pc' = "candidates" /\ attempt' = 0
  /\ UNCHANGED <<state, memory, ballot, awaited, network, ledger>>

(* _withFreshToken on my-votes: one more try with another token.           *)
MyVotesTokenRefused ==
  /\ pc = "myVotes" /\ attempt = 0
  /\ attempt' = 1
  /\ UNCHANGED <<state, memory, pc, mine, ballot, awaited, network, ledger>>

CandidatesRead ==
  /\ pc = "candidates"
  /\ stage' = "ready" /\ voted' = mine /\ offered' = Filter(mine)
  /\ selection' = {v \in selection : ~Taken(mine, v)}
  /\ settled' = FALSE
  /\ pc' = "nothing" /\ attempt' = 0 /\ mine' = {}
  /\ UNCHANGED <<failure, conflicts, accepted, maybeDelivered, ballot, awaited,
                 network, ledger>>

(* Stages a load can end in, by the step that fails or says so (_map).     *)
LoadEndings(await) ==
  CASE await = "edition"    -> {"upcoming", "closed", "upgradeRequired", "failed"}
    [] await = "identity"   -> {"unsupported", "failed"}
    [] await = "myVotes"    -> Gates \cup {"failed"}
    [] await = "candidates" -> {"upgradeRequired", "failed"}
    [] OTHER                -> {}

LoadFailures(s) ==
  CASE s = "failed"   -> {"retryable", "final"}
    [] s = "upcoming" -> {"none", "gate"}
    [] OTHER          -> {"gate"}

LoadStops ==
  /\ \E s \in LoadEndings(pc) : stage' = s /\ failure' \in LoadFailures(s)
  /\ pc' = "nothing" /\ attempt' = 0 /\ mine' = {}
  /\ UNCHANGED <<offered, selection, voted, conflicts, accepted, memory, ballot,
                 awaited, network, ledger>>

-----------------------------------------------------------------------------
(* The ballot paper.                                                       *)

(* Mutant: the ballot paper stays open while it travels.                   *)
PaperNeverCloses == stage \in {"ready", "submitting"}

(* The early return of select() and submit().                              *)
PaperOpen == stage = "ready"

(* select(): tapping a candidate picks it in its category, tapping the     *)
(* picked one again takes it off.                                          *)
Select(v) ==
  /\ PaperOpen /\ v \in offered
  /\ LET others == {w \in selection : w.cat # v.cat}
     IN  selection' = IF v \in selection THEN others ELSE others \cup {v}
  /\ failure' = "none"
  /\ conflicts' = {c \in conflicts : c.cat # v.cat}
  /\ UNCHANGED <<stage, offered, voted, accepted, memory, calls, network, ledger>>

MinDurationPasses ==
  /\ stage = "ready" /\ ~settled
  /\ settled' = TRUE
  /\ UNCHANGED <<state, maybeDelivered, calls, network, ledger>>

(* submit() with nothing to send, or too early: only a warning.            *)
SubmitWarns ==
  /\ PaperOpen
  /\ \/ selection = {} /\ failure' = "noSelection"
     \/ selection # {} /\ ~settled /\ failure' = "tooFast"
  /\ UNCHANGED <<stage, offered, selection, voted, conflicts, accepted, memory,
                 calls, network, ledger>>

(* submit(), also as the retry of a ballot whose last sending failed.      *)
Submit ==
  /\ PaperOpen /\ selection # {} /\ settled
  /\ stage' = "submitting" /\ failure' = "none" /\ conflicts' = {}
  /\ ballot' = selection
  /\ pc' = "token" /\ attempt' = 0
  /\ UNCHANGED <<offered, selection, voted, accepted, memory, mine, awaited,
                 network, ledger>>

(* voteAgain(): "vote for other places".                                   *)
VoteAgain ==
  /\ stage = "sent"
  /\ stage' = "ready" /\ failure' = "none"
  /\ selection' = {} /\ accepted' = {} /\ conflicts' = {}
  /\ settled' = FALSE
  /\ UNCHANGED <<offered, voted, maybeDelivered, calls, network, ledger>>

-----------------------------------------------------------------------------
(* submit(), await by await.  Another token is asked for before each POST. *)

(* Leaving submit() for a stage that keeps the ballot paper, or blocks it. *)
LeaveSubmit(s, f) ==
  /\ stage' = s /\ failure' = f
  /\ pc' = "nothing" /\ attempt' = 0 /\ ballot' = {}
  /\ answer' = NoAnswer

TokenGranted ==
  /\ pc = "token" /\ granted < MaxPosts
  /\ granted' = granted + 1
  /\ pc' = "send"
  /\ UNCHANGED <<state, memory, attempt, mine, ballot, awaited, sentPosts, first,
                 wire, answer, ledger>>

(* No token, or a TLS chain that is not ours: nothing has left the phone.  *)
SendFails ==
  /\ \/ pc = "token" /\ LeaveSubmit("unsupported", "gate")
     \/ pc \in {"token", "send"} /\ LeaveSubmit("ready", "retryable")
  /\ UNCHANGED <<offered, selection, voted, conflicts, accepted, memory, mine,
                 awaited, granted, sentPosts, first, wire, ledger>>

SendPost ==
  /\ pc = "send" /\ sentPosts < MaxPosts
  /\ LET n == sentPosts + 1
     IN  /\ sentPosts' = n
         /\ wire' = [wire EXCEPT ![n] = [ballot |-> ballot, token |-> granted,
                                         status |-> "travelling"]]
         /\ awaited' = awaited \cup {n}
  /\ pc' = "answer" /\ answer' = NoAnswer
  /\ UNCHANGED <<state, memory, attempt, mine, ballot, granted, first, ledger>>

(* The answer to the last POST arrives.                                    *)
Receives(kinds) ==
  /\ pc = "answer" /\ answer.kind \in kinds
  /\ awaited' = awaited \ {sentPosts}
  /\ UNCHANGED <<mine, granted, sentPosts, first, wire, ledger>>

(* _onSent: thanks for votes, with what the server says is voted by now.   *)
OnSent(votes, nowVoted) ==
  /\ accepted' = votes
  /\ voted' = nowVoted /\ offered' = Filter(nowVoted)
  /\ selection' = {} /\ conflicts' = {}
  /\ LeaveSubmit("sent", "none")

(* 201: the receipt may leave out the votes of the phone (SurveyVoted).    *)
ReceiveAccepted ==
  /\ Receives({"accepted"})
  /\ maybeDelivered' = {}
  /\ OnSent(ballot, IF answer.votes = {} THEN voted \cup ballot ELSE answer.votes)
  /\ UNCHANGED settled

(* Mutant: any 409 after a cut is taken for the success of what was cut.   *)
ReconciledByPending == maybeDelivered # {}

(* A 409 that names the whole ballot whose answer was lost is its success. *)
Reconciled == maybeDelivered = ballot /\ ballot \subseteq answer.votes

ReceiveReconciled ==
  /\ Receives({"conflict"}) /\ Reconciled
  /\ maybeDelivered' = {}
  /\ OnSent(ballot, voted \cup ballot)
  /\ UNCHANGED settled

(* Mutants: the whole ballot is taken for voted; nothing leaves the paper. *)
WholeBallotVoted == voted \cup ballot
PaperKept == selection

(* _onConflict: what the conflicts of the answer teach, and what they leave.*)
VotedAfterConflict == voted \cup answer.votes
PaperAfterConflict == {v \in selection : \A c \in answer.votes : c.biz # v.biz}

(* Any other 409: the refused businesses leave the ballot paper.           *)
ReceiveConflict ==
  /\ Receives({"conflict"}) /\ ~Reconciled
  /\ maybeDelivered' = {}
  /\ voted' = VotedAfterConflict
  /\ selection' = PaperAfterConflict
  /\ conflicts' = answer.votes
  /\ LeaveSubmit("ready", "alreadyVoted")
  /\ UNCHANGED <<offered, accepted, settled>>

(* Mutant: the POST is repeated with the token it already has.             *)
ReceiveTokenReused ==
  /\ Receives({"stale", "replayed"}) /\ attempt = 0
  /\ attempt' = 1 /\ pc' = "send" /\ answer' = NoAnswer
  /\ UNCHANGED <<state, memory, ballot>>

(* _withFreshToken: a stale or used token is worth one more POST.          *)
ReceiveTokenRefused ==
  /\ Receives({"stale", "replayed"}) /\ attempt = 0
  /\ attempt' = 1 /\ pc' = "token" /\ answer' = NoAnswer
  /\ UNCHANGED <<state, memory, ballot>>

(* Any other refusal before counting: a warning, the ballot paper stays.   *)
ReceiveRefused ==
  /\ \/ Receives({"stale", "replayed"}) /\ attempt = 1
     \/ Receives({"refused"})
  /\ \E f \in {"retryable", "final"} : LeaveSubmit("ready", f)
  /\ UNCHANGED <<offered, selection, voted, conflicts, accepted, memory>>

ReceiveGate ==
  /\ Receives({"gate"})
  /\ \E s \in Gates \ {"unsupported"} : LeaveSubmit(s, "gate")
  /\ UNCHANGED <<offered, selection, voted, conflicts, accepted, memory>>

(* 5xx: the ballot may have been counted before the failure.               *)
ReceiveServerError ==
  /\ Receives({"serverError"})
  /\ maybeDelivered' = ballot
  /\ \E f \in {"retryable", "final"} : LeaveSubmit("ready", f)
  /\ UNCHANGED <<offered, selection, voted, conflicts, accepted, settled>>

(* Mutants: a cut is forgotten; the POST has no timeout.                   *)
GiveUpForgets ==
  /\ Receives(Kinds)
  /\ LeaveSubmit("ready", "retryable")
  /\ UNCHANGED <<offered, selection, voted, conflicts, accepted, memory>>

GiveUpOnlyOnAnswer ==
  /\ Receives(Kinds \ {"none"})
  /\ maybeDelivered' = ballot
  /\ LeaveSubmit("ready", "retryable")
  /\ UNCHANGED <<offered, selection, voted, conflicts, accepted, settled>>

(* The connection is cut after the POST left, or 20 s pass without answer. *)
GiveUp ==
  /\ Receives(Kinds)
  /\ maybeDelivered' = ballot
  /\ LeaveSubmit("ready", "retryable")
  /\ UNCHANGED <<offered, selection, voted, conflicts, accepted, settled>>

-----------------------------------------------------------------------------
(* The server (external).  It may handle POST i long after the phone has   *)
(* given up on it; then nobody reads the answer.                           *)

Answers(i, kind, votes) ==
  answer' = IF i \in awaited /\ i = sentPosts
              THEN [kind |-> kind, votes |-> votes] ELSE answer

Handles(i, status) ==
  /\ wire[i].status = "travelling"
  /\ wire' = [wire EXCEPT ![i].status = status]
  /\ UNCHANGED <<state, memory, calls, granted, sentPosts, first>>

Refused(i) == {v \in wire[i].ballot : Taken(ledger, v)}

Distinct(votes) == \A v, w \in votes : SameSlot(v, w) => v = w

ServerCounts(i) ==
  /\ Handles(i, "counted")
  /\ Refused(i) = {} /\ Distinct(wire[i].ballot)
  /\ ledger' = ledger \cup wire[i].ballot
  /\ \/ \E votes \in {{}, ledger'} : Answers(i, "accepted", votes)
     \/ Answers(i, "serverError", {})

ServerConflicts(i) ==
  /\ Handles(i, "conflicted")
  /\ Refused(i) # {}
  /\ Answers(i, "conflict", Refused(i))
  /\ UNCHANGED ledger

ServerRefuses(i) ==
  /\ Handles(i, "refused")
  /\ \E kind \in {"stale", "refused", "gate", "serverError"} : Answers(i, kind, {})
  /\ UNCHANGED ledger

(* A second copy of a POST whose token is already consumed.                *)
ServerReplays(i) ==
  /\ Duplicates
  /\ wire[i].status \in {"counted", "conflicted"}
  /\ i \in awaited /\ Answers(i, "replayed", {})
  /\ UNCHANGED <<state, memory, calls, granted, sentPosts, first, wire, ledger>>

-----------------------------------------------------------------------------
LoadNext == \/ ReadAgain \/ EditionRead \/ IdentityReady \/ MyVotesRead
            \/ MyVotesTokenRefused \/ CandidatesRead \/ LoadStops

PaperNext == \/ \E v \in Nominated : Select(v)
             \/ MinDurationPasses \/ SubmitWarns \/ Submit \/ VoteAgain

Receive == \/ ReceiveAccepted \/ ReceiveReconciled \/ ReceiveConflict
           \/ ReceiveTokenRefused \/ ReceiveRefused \/ ReceiveGate
           \/ ReceiveServerError \/ GiveUp

SendNext == TokenGranted \/ SendFails \/ SendPost

ServerNext == \E i \in PostIds : \/ ServerCounts(i) \/ ServerConflicts(i)
                                 \/ ServerRefuses(i) \/ ServerReplays(i)

Next == Reopen \/ Reload \/ LoadNext \/ PaperNext \/ SendNext \/ Receive
        \/ ServerNext

Spec == Init /\ [][Next]_vars

(* Reads have a 20 s timeout and a bounded number of retries, the POST has *)
(* the same timeout, App Check and the Keychain answer: a suspended call   *)
(* goes on.  Nothing is assumed of the user, and nothing of the server.    *)
Fairness == WF_vars(LoadNext) /\ WF_vars(SendNext) /\ WF_vars(Receive)
FairSpec == Spec /\ Fairness

-----------------------------------------------------------------------------
TypeOK ==
  /\ stage \in Stages /\ failure \in Failures
  /\ offered \subseteq Vote /\ selection \subseteq Vote /\ voted \subseteq Vote
  /\ conflicts \subseteq Vote /\ accepted \subseteq Vote
  /\ settled \in BOOLEAN /\ maybeDelivered \subseteq Vote
  /\ pc \in Awaits /\ attempt \in 0..Backoff
  /\ mine \subseteq Vote /\ ballot \subseteq Vote /\ awaited \subseteq PostIds
  /\ granted \in 0..MaxPosts /\ sentPosts \in 0..MaxPosts
  /\ first \in 1..(MaxPosts + 1)
  /\ wire \in [PostIds -> Post] /\ answer \in Answer
  /\ ledger \subseteq Vote

(* "Gracias" is only shown for votes that the server holds, whether it was *)
(* a 201 that said so or a 409 read as the success of a ballot cut short   *)
(* (_onSent, _onConflict).                                                 *)
SentMeansCounted ==
  stage = "sent" => accepted # {} /\ \A v \in accepted : Taken(ledger, v)

(* The app never claims that this phone voted for a place it has not voted *)
(* for: such a place disappears from the candidates (voted feeds _filter,  *)
(* the "my votes" page and the cache of the home page).                    *)
VotedIsCounted == \A v \in voted : Taken(ledger, v)

(* While a ballot travels the paper does not change under it: what the     *)
(* answer removes, keeps or thanks for is what was sent.                   *)
SubmittedBallotIsFrozen == stage = "submitting" => selection = ballot

(* A vote is never sent twice with the same App Check token.               *)
FreshTokens ==
  \A i, j \in 1..sentPosts : wire[i].token = wire[j].token => i = j

(* Pressing "send" twice, or retrying, never leaves two POSTs of the page  *)
(* waiting for an answer at once.                                          *)
OnePostAwaited == \A i, j \in awaited : i = j

(* What a 409 leaves on the paper can be sent again: nothing of it is      *)
(* known to be voted, in any category.                                     *)
PaperAfterConflictIsClean ==
  failure = "alreadyVoted" => \A v \in selection : ~Taken(voted, v)

(* Since POST m the user has only pressed "retry": every later POST of the *)
(* page carries the same ballot.                                           *)
SameSince(m) == \A k \in m..sentPosts : wire[k].ballot = wire[m].ballot

CountedAndOnlyRetried ==
  \E m \in first..sentPosts : wire[m].status = "counted" /\ SameSince(m)

(* Aeroplane mode in the middle of a vote: if the ballot got in, retrying  *)
(* ends in "gracias" or in another warning to retry, never in the reproach *)
(* that these places were already voted.                                   *)
ReproachesACountedBallot ==
  failure' = "alreadyVoted" /\ failure # "alreadyVoted" /\ CountedAndOnlyRetried
RetryOfCountedBallotIsNotRefused == [][~ReproachesACountedBallot]_vars

(* The candidates on the paper are those this phone has not voted.         *)
OfferedIsNotVoted ==
  stage = "ready" => \A v \in offered : ~Taken(voted, v)

(* load() always leaves a stage other than loading, unless the page is     *)
(* closed and opened for ever.                                             *)
LoadingEnds ==
  []<><<Reopen>>_vars \/ (stage = "loading" ~> stage # "loading")

(* The button of the page never stays blocked: a submission ends.          *)
SubmittingEnds == stage = "submitting" ~> stage # "submitting"

(* The survey keeps the promise of the ballot box.                         *)
Box == INSTANCE BallotBox WITH
         counted <- ledger,
         thanked <- IF stage = "sent" THEN accepted ELSE {}

KeepsThePromise == Box!BoxSpec

-----------------------------------------------------------------------------
(* The inductive invariant behind the theorems of SurveyVoteProofs.        *)
AllCounted(votes) == \A v \in votes : Taken(ledger, v)

LoadAwaits   == {"edition", "identity", "myVotes", "candidates"}
SubmitAwaits == {"token", "send", "answer"}

(* The stage on screen says which call, if any, is suspended.              *)
CallsMatchStage ==
  /\ stage = "loading" <=> pc \in LoadAwaits
  /\ stage = "submitting" <=> pc \in SubmitAwaits
  /\ stage = "submitting" => selection = ballot /\ ballot # {}
  /\ awaited \subseteq {i \in PostIds : i = sentPosts /\ pc = "answer"}

(* An answer belongs to the last POST, which carries the ballot being sent.*)
AnswerMatchesPost ==
  /\ answer # NoAnswer => pc = "answer"
  /\ pc = "answer" => sentPosts \in PostIds /\ wire[sentPosts].ballot = ballot
  /\ answer.kind = "accepted" => AllCounted(ballot) /\ AllCounted(answer.votes)
  /\ answer.kind = "conflict" => AllCounted(answer.votes)

(* No empty ballot leaves the phone.                                       *)
PostsCarryVotes ==
  \A i \in PostIds : wire[i].status # "unsent" => wire[i].ballot # {}

(* Everything the phone believes to be voted is counted.                   *)
BeliefsAreCounted ==
  AllCounted(voted) /\ AllCounted(mine) /\ SentMeansCounted

(* Tokens are spent in the order they are granted.                         *)
TokensInOrder ==
  /\ \A i \in 1..sentPosts : wire[i].token <= granted
  /\ pc = "send" => \A i \in 1..sentPosts : wire[i].token < granted
  /\ FreshTokens

IInv == /\ TypeOK /\ CallsMatchStage /\ AnswerMatchesPost
        /\ PostsCarryVotes /\ BeliefsAreCounted /\ TokensInOrder

=============================================================================
