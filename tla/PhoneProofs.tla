----------------------------- MODULE PhoneProofs -----------------------------
(***************************************************************************)
(* Theorems about Phone, for any users, services and secrets, and any      *)
(* number of sign-ins, calls, starts and installations.                    *)
(***************************************************************************)
EXTENDS Phone, TLAPS

(***************************************************************************)
(* What the steps keep.                                                    *)
(***************************************************************************)

(* Only the shared source reads, so the secret is missing while it is about *)
(* to write one; and what it has read is what is stored.                    *)
OneReader ==
  /\ \A k \in Services : reading[k] = NoReading
  /\ reading[Shared].at = "write" => secret = Missing
  /\ reading[Shared].at = "done" => reading[Shared].id = secret /\ secret \in Secrets
  /\ handed \subseteq {secret} \cap Secrets

(* One call of the Perfil's own at a time; its buttons sign in when it has *)
(* nothing under way, and it stays so until the sign-in ends.              *)
OneAsks ==
  /\ \A c, d \in Slots : calls[c].mine /\ calls[d].mine => c = d
  /\ perfil.status = "guest" => perfil.step \notin {"ask", "wait"}
  /\ \A f, g \in Flows : logins[f].watched /\ logins[g].watched => f = g
  /\ \A f \in Flows : logins[f].watched =>
       /\ perfil.up
       /\ logins[f].from # "elsewhere" => perfil.status = "guest" /\ perfil.step = "idle"
  /\ \A f \in Flows : leaving.who = f /\ leaving.step # "no" =>
       logins[f].watched /\ logins[f].step = "leaving"

(* A call is for somebody, and so is a sign-in once it is granted.         *)
Somebody ==
  /\ \A c \in Slots : calls[c] = NoCall \/ calls[c].user \in Users
  /\ \A f \in Flows : logins[f].step \notin {"idle", "asked"} => logins[f].user \in Users

(* Whose data there is, where the steps of a sign-out have been or not.    *)
Owners   == {NoUser, storage.userId} \cup excused
WhoseData ==
  /\ leaving.step # "clear" => storage.email \in Owners /\ storage.name \in Owners
  /\ leaving.step \notin {"clear", "reset"} => cubit \in Owners
  /\ \A c \in Slots : calls[c].current => calls[c].user = storage.userId
  /\ \A f \in Flows : Entering(f) => logins[f].user \in Owners

(* Before the tabs there is only what storage keeps.                       *)
OnlyStorage ==
  stage # "tabs" =>
    /\ cubit = NoUser /\ leaving = NotLeaving /\ ~perfil.up /\ perfil.step = "idle"
    /\ \A c \in Slots : calls[c] = NoCall
    /\ \A f \in Flows : logins[f] = Idle

(* What an earlier installation left is gone once the marker is there, and *)
(* without it there is nothing of this one's, unless the guard failed.     *)
Marked ==
  /\ stage \in {"wipe", "mark"} => ~marker
  /\ stage = "mark" => ~remains
  /\ marker /\ remains => failed
  /\ stage \in {"splash", "tabs"} => marker \/ failed
  /\ ~marker /\ storage # Empty => remains \/ failed

PhoneInv == TypeOK /\ OneReader /\ OneAsks /\ Somebody /\ WhoseData /\ OnlyStorage /\ Marked

USE IdentityAssumption, UserAssumption

LEMMA NoCallType == NoCall \in Call /\ NoReading \in Reading
BY DEF NoCall, Call, Anyone, NoReading, Reading, Stored

LEMMA SourcesAre == Shared \in Sources /\ Sources = Services \cup {Shared}
BY DEF Sources

-----------------------------------------------------------------------------
(* The identity.                                                           *)

Identity == IdentityTypeOK /\ OneReader

LEMMA IdentityStarts == IdentityInit => Identity
BY SourcesAre, NoCallType DEF IdentityInit, Identity, IdentityTypeOK, OneReader, Stored, NoReading, Reading, Sources, Shared, Missing

LEMMA IdentityKept == ASSUME Identity, UNCHANGED idVars PROVE Identity'
BY DEF Identity, IdentityTypeOK, OneReader, idVars

LEMMA ServiceStep ==
  ASSUME Identity, NEW s \in Services, OpenSurvey(s) \/ CloseSurvey(s) \/ AskId(s)
  PROVE  Identity'
<1>1. CASE OpenSurvey(s)
  BY <1>1 DEF OpenSurvey, Identity, IdentityTypeOK, OneReader
<1>2. CASE CloseSurvey(s)
  BY <1>2 DEF CloseSurvey, Identity, IdentityTypeOK, OneReader
<1>3. CASE AskId(s)
  <2>1. reading' = [reading EXCEPT ![Shared].at = IF @ = "idle" THEN "read" ELSE @]
    BY <1>3 DEF AskId, SourceOf
  <2>2. reading' \in [Sources -> Reading]
    BY <2>1, SourcesAre DEF Identity, IdentityTypeOK, Reading
  <2>3. service' \in [Services -> {"closed", "open", "waiting", "ready"}]
    BY <1>3 DEF AskId, Identity, IdentityTypeOK
  <2>4. \A k \in Services : reading'[k] = reading[k]
    BY <2>1, SourcesAre DEF Identity, IdentityTypeOK
  <2>5. /\ reading'[Shared].id = reading[Shared].id
        /\ reading'[Shared].at \in {"read", reading[Shared].at}
    BY <2>1, SourcesAre DEF Identity, IdentityTypeOK, Reading
  <2>6. QED
    BY <1>3, <2>2, <2>3, <2>4, <2>5 DEF AskId, Identity, IdentityTypeOK, OneReader
<1>4. QED
  BY <1>1, <1>2, <1>3

LEMMA HandingStep == ASSUME Identity, NEW s \in Services, GetId(s) PROVE Identity'
<1>1. reading[Shared].at = "done" /\ handed' = handed \cup {reading[Shared].id}
  BY DEF GetId, SourceOf
<1>2. reading[Shared].id = secret /\ secret \in Secrets
  BY <1>1 DEF Identity, OneReader
<1>3. OneReader'
  BY <1>1, <1>2 DEF GetId, Identity, OneReader
<1>4. handed' \subseteq Stored
  BY <1>1, <1>2 DEF Identity, IdentityTypeOK, Stored
<1>5. QED
  BY <1>3, <1>4 DEF GetId, Identity, IdentityTypeOK

LEMMA ReaderStep ==
  ASSUME Identity, NEW k \in Sources,
         ReadSecret(k) \/ WriteSecret(k) \/ CheckSecret(k) \/ ReadingFails(k)
  PROVE  Identity'
<1>1. k = Shared
  <2>1. reading[k].at # "idle"
    BY DEF ReadSecret, WriteSecret, CheckSecret, ReadingFails
  <2>2. QED
    BY <2>1 DEF Identity, OneReader, NoReading, Sources
<1>2. Shared \notin Services
  BY DEF Shared
<1>3. CASE ReadSecret(k)
  <2>1. /\ reading' = [reading EXCEPT ![Shared] = [at |-> AfterRead, id |-> secret]]
        /\ UNCHANGED <<secret, service, handed>> /\ secret # "corrupt"
    BY <1>1, <1>3 DEF ReadSecret
  <2>2. secret \in Stored /\ AfterRead \in {"write", "done"}
    BY DEF AfterRead, Identity, IdentityTypeOK
  <2>3. reading' \in [Sources -> Reading]
    BY <2>1, <2>2, SourcesAre DEF Identity, IdentityTypeOK, Reading
  <2>4. reading'[Shared] = [at |-> AfterRead, id |-> secret]
    BY <2>1, SourcesAre DEF Identity, IdentityTypeOK
  <2>5. \A j \in Services : reading'[j] = reading[j]
    BY <2>1, <1>2, SourcesAre DEF Identity, IdentityTypeOK
  <2>6. /\ AfterRead = "write" => secret = Missing
        /\ AfterRead = "done" => secret \in Secrets
    BY <2>1, <2>2 DEF AfterRead, Stored
  <2>7. OneReader'
    BY <2>1, <2>4, <2>5, <2>6 DEF Identity, OneReader
  <2>8. QED
    BY <2>1, <2>3, <2>7 DEF Identity, IdentityTypeOK
<1>4. CASE WriteSecret(k)
  <2>1. /\ reading' = [reading EXCEPT ![Shared].at = "check"]
        /\ secret' \in Secrets /\ UNCHANGED <<service, handed>>
    BY <1>1, <1>4 DEF WriteSecret
  <2>2. secret = Missing /\ handed = {}
    BY <1>1, <1>4 DEF WriteSecret, Identity, OneReader
  <2>3. reading' \in [Sources -> Reading]
    BY <2>1, SourcesAre DEF Identity, IdentityTypeOK, Reading
  <2>4. reading'[Shared].at = "check" /\ \A j \in Services : reading'[j] = reading[j]
    BY <2>1, <1>2, SourcesAre DEF Identity, IdentityTypeOK, Reading
  <2>5. QED
    BY <2>1, <2>2, <2>3, <2>4 DEF Identity, IdentityTypeOK, OneReader, Stored
<1>5. CASE CheckSecret(k)
  <2>1. /\ reading' = [reading EXCEPT ![Shared] = [at |-> "done", id |-> secret]]
        /\ UNCHANGED <<secret, service, handed>> /\ secret \in Secrets
    BY <1>1, <1>5 DEF CheckSecret
  <2>2. reading' \in [Sources -> Reading]
    BY <2>1, SourcesAre DEF Identity, IdentityTypeOK, Reading, Stored
  <2>3. /\ reading'[Shared] = [at |-> "done", id |-> secret]
        /\ \A j \in Services : reading'[j] = reading[j]
    BY <2>1, <1>2, SourcesAre DEF Identity, IdentityTypeOK
  <2>4. QED
    BY <2>1, <2>2, <2>3 DEF Identity, IdentityTypeOK, OneReader
<1>6. CASE ReadingFails(k)
  <2>1. /\ reading' = [reading EXCEPT ![Shared] = NoReading]
        /\ UNCHANGED <<secret, handed>>
    BY <1>1, <1>6 DEF ReadingFails
  <2>2. /\ reading' \in [Sources -> Reading]
        /\ reading'[Shared].at = "idle" /\ \A j \in Services : reading'[j] = reading[j]
    BY <2>1, <1>2, SourcesAre, NoCallType DEF Identity, IdentityTypeOK, NoReading
  <2>3. service' \in [Services -> {"closed", "open", "waiting", "ready"}]
    BY <1>6 DEF ReadingFails, Identity, IdentityTypeOK
  <2>4. QED
    BY <2>1, <2>2, <2>3 DEF Identity, IdentityTypeOK, OneReader
<1>7. QED
  BY <1>3, <1>4, <1>5, <1>6

LEMMA IdentityStep == ASSUME Identity, IdentityNext PROVE Identity'
BY ServiceStep, HandingStep, ReaderStep DEF IdentityNext

LEMMA IdentityDies ==
  ASSUME Identity, IdentityForgotten, UNCHANGED <<secret, handed>> PROVE Identity'
BY SourcesAre, NoCallType
   DEF IdentityForgotten, Identity, IdentityTypeOK, OneReader, NoReading

-----------------------------------------------------------------------------
(* The session: types, and one call and one watched sign-in at a time.     *)

Session == SessionTypeOK /\ OneAsks /\ Somebody

Profiles == [up : BOOLEAN, status : {"checking", "guest", "loading", "error"},
             step : {"idle", "local", "none", "some", "ask", "wait"}]
Logins   == [step : {"idle", "asked", "card", "opened", "leaving"},
             user : Anyone, watched : BOOLEAN, from : {"perfil", "email", "elsewhere"}]

LEMMA FlowsAreNumbered == Perfil \notin Flows /\ Flows \subseteq 0..MaxFlows /\ 0 \in 0..MaxFlows
BY DEF Perfil, Flows

LEMMA RestingTypes ==
  /\ NoPerfil \in Profiles /\ NewPerfil \in Profiles /\ Idle \in Logins
  /\ NotLeaving \in [who : 0..MaxFlows, step : {"no", "userId", "clear", "reset"}]
  /\ Empty \in [userId : Anyone, email : Anyone, name : Anyone]
BY FlowsAreNumbered DEF NoPerfil, NewPerfil, Profiles, Idle, Logins, NotLeaving, Anyone, Empty

LEMMA UnwatchedLogin ==
  ASSUME NEW l \in Logins
  PROVE  /\ Unwatched(l) \in Logins /\ ~Unwatched(l).watched
         /\ Unwatched(l).step = l.step /\ Unwatched(l).user = l.user
BY DEF Unwatched, Logins

LEMMA SessionStarts == SessionInit => Session
<1> SUFFICES ASSUME SessionInit PROVE Session
  OBVIOUS
<1>1. SessionTypeOK
  BY RestingTypes, NoCallType DEF SessionInit, NoCall, Empty, SessionTypeOK, Profiles, Logins
<1>2. OneAsks
  BY DEF SessionInit, OneAsks, NoCall, NoPerfil, Idle, NotLeaving
<1>3. Somebody
  BY DEF SessionInit, Somebody, Idle
<1>4. QED
  BY <1>1, <1>2, <1>3 DEF Session

LEMMA SessionKept == ASSUME Session, UNCHANGED sesVars PROVE Session'
BY DEF Session, SessionTypeOK, OneAsks, Somebody, sesVars

LEMMA SessionDies ==
  ASSUME Session, SessionForgotten, UNCHANGED <<storage, signIns>> PROVE Session'
<1>1. excused' \subseteq Users
  BY DEF SessionForgotten, Session, SessionTypeOK, Anyone
<1>2. calls' \in [Slots -> Call] /\ \A c \in Slots : ~calls'[c].mine
  BY NoCallType DEF SessionForgotten, NoCall
<1>3. perfil' \in Profiles /\ logins' \in [Flows -> Logins] /\ cubit' \in Anyone
  BY RestingTypes DEF SessionForgotten, Anyone
<1>4. leaving' \in [who : 0..MaxFlows, step : {"no", "userId", "clear", "reset"}]
  BY RestingTypes DEF SessionForgotten
<1>5. SessionTypeOK'
  BY <1>1, <1>2, <1>3, <1>4 DEF Session, SessionTypeOK, Profiles, Logins
<1>6. OneAsks'
  BY DEF SessionForgotten, OneAsks, NoCall, NoPerfil, Idle, NotLeaving
<1>7. Somebody'
  BY DEF SessionForgotten, Somebody, Idle
<1>8. QED
  BY <1>5, <1>6, <1>7 DEF Session

(* A new call leaves the others as they are, and knows its session.        *)
LEMMA AskedInBackground ==
  ASSUME SessionTypeOK, NEW u \in Anyone, Asked(u, FALSE)
  PROVE  /\ calls' \in [Slots -> Call]
         /\ \A c \in Slots : \/ calls'[c] = calls[c]
                            \/ /\ ~calls'[c].mine /\ calls'[c].user = u
                               /\ calls'[c].current => u = storage.userId
<1>1. PICK c \in Slots :
        calls' = [calls EXCEPT ![c] = [user |-> u, mine |-> FALSE, current |-> storage.userId = u]]
  BY DEF Asked
<1>2. (storage.userId = u) \in BOOLEAN
  OBVIOUS
<1>3. [user |-> u, mine |-> FALSE, current |-> storage.userId = u] \in Call
  BY <1>2 DEF Call
<1>4. QED
  BY <1>1, <1>3 DEF SessionTypeOK

LEMMA AskedByPerfil ==
  ASSUME SessionTypeOK, NEW u \in Anyone, Asked(u, TRUE)
  PROVE  /\ calls' \in [Slots -> Call]
         /\ \E c \in Slots : /\ calls'[c].user = u
                             /\ calls'[c].current => u = storage.userId
                             /\ \A d \in Slots \ {c} : calls'[d] = calls[d]
<1>1. PICK c \in Slots :
        calls' = [calls EXCEPT ![c] = [user |-> u, mine |-> TRUE, current |-> storage.userId = u]]
  BY DEF Asked
<1>2. (storage.userId = u) \in BOOLEAN
  OBVIOUS
<1>3. [user |-> u, mine |-> TRUE, current |-> storage.userId = u] \in Call
  BY <1>2 DEF Call
<1>4. QED
  BY <1>1, <1>3 DEF SessionTypeOK

(* What happens to the Perfil while it loads, and nobody signs in from it. *)
LEMMA PerfilLoads ==
  ASSUME Session, UNCHANGED <<storage, cubit, logins, leaving, excused, signIns>>,
         perfil' \in Profiles, perfil'.up = perfil.up,
         perfil.step # "idle" \/ perfil.status # "guest",
         perfil'.status = "guest" => perfil'.step \notin {"ask", "wait"},
         calls' \in [Slots -> Call],
         \A c \in Slots : calls'[c].mine => perfil'.step = "wait",
         \A c \in Slots : calls'[c] = NoCall \/ calls'[c].user \in Users,
         \A c, d \in Slots : calls'[c].mine /\ calls'[d].mine => c = d
  PROVE  Session'
<1>1. SessionTypeOK'
  BY DEF Session, SessionTypeOK, Profiles, Logins
<1>2. OneAsks' /\ Somebody'
  BY DEF Session, OneAsks, Somebody
<1>3. QED
  BY <1>1, <1>2 DEF Session

LEMMA TabsStep == ASSUME Session, EnterTabs, perfil.step = "idle" PROVE Session'
<1>1. /\ calls' \in [Slots -> Call]
      /\ \A c \in Slots : ~calls'[c].mine
      /\ \A c \in Slots : calls'[c] = NoCall \/ calls'[c].user \in Users
  <2>1. \A c \in Slots : ~calls[c].mine /\ (calls[c] = NoCall \/ calls[c].user \in Users)
    BY DEF Session, SessionTypeOK, Somebody
  <2>2. CASE UNCHANGED calls
    BY <2>1, <2>2 DEF Session, SessionTypeOK
  <2>3. CASE storage.userId # NoUser /\ Asked(storage.userId, FALSE)
    <3>1. storage.userId \in Anyone /\ storage.userId \in Users
      BY <2>3 DEF Session, SessionTypeOK, Anyone
    <3>2. QED
      BY <2>1, <2>3, <3>1, AskedInBackground DEF Session
  <2>4. QED
    BY <2>2, <2>3 DEF EnterTabs
<1>2. perfil' = NewPerfil /\ perfil' \in Profiles
  BY RestingTypes DEF EnterTabs
<1>3. SessionTypeOK'
  BY <1>1, <1>2 DEF EnterTabs, Session, SessionTypeOK, Profiles
<1>4. \A f \in Flows : ~logins[f].watched
  BY DEF EnterTabs, Session, OneAsks
<1>5. OneAsks'
  BY <1>1, <1>2, <1>4 DEF EnterTabs, Session, OneAsks, NewPerfil
<1>6. Somebody'
  BY <1>1 DEF EnterTabs, Session, Somebody
<1>7. QED
  BY <1>3, <1>5, <1>6 DEF Session

LEMMA LoadStep ==
  ASSUME Session, ReadLocalId \/ LoadDecides \/ LoadUser \/ RetryProfile
  PROVE  Session'
<1>1. CASE ReadLocalId
  BY <1>1, PerfilLoads DEF ReadLocalId, Session, SessionTypeOK, OneAsks, Somebody, Profiles
<1>2. CASE LoadDecides
  BY <1>2, PerfilLoads DEF LoadDecides, Session, SessionTypeOK, OneAsks, Somebody, Profiles
<1>3. CASE RetryProfile
  BY <1>3, PerfilLoads DEF RetryProfile, Session, SessionTypeOK, OneAsks, Somebody, Profiles
<1>4. CASE LoadUser
  <2>1. \A c \in Slots : ~calls[c].mine
    BY <1>4 DEF LoadUser, Session, SessionTypeOK
  <2>2. CASE storage.userId = NoUser
    <3>1. /\ perfil' = [perfil EXCEPT !.status = "guest", !.step = "idle"]
          /\ UNCHANGED <<storage, cubit, calls, logins, leaving, excused, signIns>>
      BY <1>4, <2>2 DEF LoadUser
    <3>2. perfil' \in Profiles /\ perfil'.up = perfil.up /\ perfil'.step = "idle"
      BY <3>1 DEF Session, SessionTypeOK, Profiles
    <3>3. perfil.step # "idle"
      BY <1>4 DEF LoadUser
    <3>4. /\ calls' \in [Slots -> Call]
          /\ \A c \in Slots : ~calls'[c].mine /\ (calls'[c] = NoCall \/ calls'[c].user \in Users)
      BY <2>1, <3>1 DEF Session, SessionTypeOK, Somebody
    <3>5. QED
      BY <3>1, <3>2, <3>3, <3>4, PerfilLoads
  <2>3. CASE storage.userId # NoUser
    <3>1. storage.userId \in Users /\ storage.userId \in Anyone /\ Asked(storage.userId, TRUE)
      BY <1>4, <2>3 DEF LoadUser, Session, SessionTypeOK, Anyone
    <3>2. PICK c \in Slots : calls'[c].user = storage.userId /\ \A d \in Slots \ {c} : calls'[d] = calls[d]
      BY <3>1, AskedByPerfil DEF Session
    <3>3. /\ calls' \in [Slots -> Call]
          /\ \A d \in Slots : calls'[d] = NoCall \/ calls'[d].user \in Users
          /\ \A d, e \in Slots : calls'[d].mine /\ calls'[e].mine => d = e
      BY <2>1, <3>1, <3>2, AskedByPerfil DEF Session, Somebody
    <3>4. perfil' = [perfil EXCEPT !.step = "wait"]
      BY <1>4, <2>3 DEF LoadUser
    <3>5. QED
      BY <1>4, <2>3, <3>3, <3>4, PerfilLoads
         DEF LoadUser, Session, SessionTypeOK, OneAsks, Somebody, Profiles
  <2>4. QED
    BY <2>2, <2>3
<1>5. QED
  BY <1>1, <1>2, <1>3, <1>4

LEMMA AnswerStep ==
  ASSUME Session, NEW c \in Slots, ProfileArrives(c) \/ ProfileFails(c)
  PROVE  Session'
<1>1. /\ calls' = [calls EXCEPT ![c] = NoCall]
      /\ UNCHANGED <<logins, leaving, signIns>>
  BY DEF ProfileArrives, ProfileFails
<1>2. calls[c].user \in Anyone /\ calls[c].mine \in BOOLEAN
  BY DEF Session, SessionTypeOK, Call
<1>3. calls[c] # NoCall /\ calls' \in [Slots -> Call]
  BY <1>1, NoCallType DEF ProfileArrives, ProfileFails, Flying, Session, SessionTypeOK
<1>4. \A d \in Slots : calls'[d].mine => d # c /\ calls'[d] = calls[d] /\ calls[d].mine
  BY <1>1 DEF Session, SessionTypeOK, NoCall
<1>5. PICK status \in {perfil.status, "error"} :
        perfil' = IF calls[c].mine THEN [perfil EXCEPT !.step = "idle", !.status = status]
                  ELSE perfil
  BY DEF ProfileArrives, ProfileFails, Returned
<1>6. /\ perfil' \in Profiles /\ perfil'.up = perfil.up
      /\ calls[c].mine => perfil'.step = "idle" /\ perfil'.status = status
      /\ ~calls[c].mine => perfil' = perfil
  BY <1>2, <1>5 DEF Session, SessionTypeOK, Profiles
<1>7. /\ storage' \in [userId : Anyone, email : Anyone, name : Anyone]
      /\ cubit' \in Anyone
  BY <1>2 DEF ProfileArrives, ProfileFails, Session, SessionTypeOK
<1>8. excused' \subseteq Users
  BY <1>3 DEF ProfileArrives, ProfileFails, Session, SessionTypeOK, Somebody
<1>9. SessionTypeOK'
  <2>1. \A d \in Slots : calls'[d].mine => perfil'.step = "wait"
    BY <1>4, <1>6 DEF Session, SessionTypeOK, OneAsks
  <2>2. QED
    BY <1>1, <1>3, <1>6, <1>7, <1>8, <2>1 DEF Session, SessionTypeOK, Profiles
<1>10. OneAsks'
  <2>1. calls[c].mine => perfil.step = "wait" /\ perfil.status # "guest"
    BY DEF Session, SessionTypeOK, OneAsks
  <2>2. \A d, e \in Slots : calls'[d].mine /\ calls'[e].mine => d = e
    BY <1>4 DEF Session, OneAsks
  <2>3. QED
    BY <1>1, <1>6, <2>1, <2>2 DEF Session, OneAsks
<1>11. Somebody'
  BY <1>1 DEF Session, SessionTypeOK, Somebody
<1>12. QED
  BY <1>9, <1>10, <1>11 DEF Session

(* A sign-in goes on: only its own record changes.                         *)
LEMMA LoginGoesOn ==
  ASSUME Session, NEW f \in Flows, NEW l \in Logins, logins' = [logins EXCEPT ![f] = l],
         UNCHANGED <<storage, cubit, calls, perfil, leaving>>, excused' = excused,
         signIns' \in 0..MaxSignIns,
         l.step \notin {"idle", "asked"} => l.user \in Users,
         l.watched => /\ \A g \in Flows \ {f} : ~logins[g].watched
                      /\ perfil.up
                      /\ l.from # "elsewhere" => perfil.status = "guest" /\ perfil.step = "idle",
         leaving.step # "no" /\ leaving.who = f => l.watched /\ l.step = "leaving"
  PROVE  Session'
<1>1. logins' \in [Flows -> Logins] /\ logins'[f] = l
      /\ \A g \in Flows \ {f} : logins'[g] = logins[g]
  BY DEF Session, SessionTypeOK, Logins
<1>2. SessionTypeOK'
  BY <1>1 DEF Session, SessionTypeOK, Logins
<1>3. OneAsks'
  BY <1>1 DEF Session, OneAsks
<1>4. Somebody'
  BY <1>1 DEF Session, Somebody
<1>5. QED
  BY <1>2, <1>3, <1>4 DEF Session

LEMMA SigningIn ==
  ASSUME Session, NEW f \in Flows, SignIn(f) \/ CloseSheet(f) \/ Refused(f)
  PROVE  Session'
<1>1. logins[f] \in Logins
  BY DEF Session, SessionTypeOK, Logins
<1>2. CASE SignIn(f)
  <2>1. PICK from \in {"perfil", "email", "elsewhere"} :
          /\ from # "elsewhere" => perfil.status = "guest"
          /\ logins' = [logins EXCEPT ![f] =
               [step |-> "asked", user |-> NoUser, from |-> from, watched |-> TRUE]]
    BY <1>2 DEF SignIn, ShowsGuest
  <2>2. [step |-> "asked", user |-> NoUser, from |-> from, watched |-> TRUE] \in Logins
    BY DEF Logins, Anyone
  <2>3. signIns' \in 0..MaxSignIns
    BY <1>2 DEF SignIn, Session, SessionTypeOK
  <2>4. perfil.up /\ (from # "elsewhere" => perfil.step = "idle")
    BY <1>2, <2>1 DEF SignIn, Session, OneAsks
  <2>5. QED
    BY <1>2, <2>1, <2>2, <2>3, <2>4, LoginGoesOn DEF SignIn, NotLeaving
<1>3. CASE CloseSheet(f)
  <2>1. /\ Unwatched(logins[f]) \in Logins /\ ~Unwatched(logins[f]).watched
        /\ Unwatched(logins[f]).step = logins[f].step
        /\ Unwatched(logins[f]).user = logins[f].user
    BY <1>1, UnwatchedLogin
  <2>2. leaving.step # "no" => leaving.who # f
    BY <1>3 DEF CloseSheet, Session, OneAsks
  <2>3. signIns' \in 0..MaxSignIns
    BY <1>3 DEF CloseSheet, Session, SessionTypeOK
  <2>4. QED
    BY <1>3, <2>1, <2>2, <2>3, LoginGoesOn DEF CloseSheet, Session, Somebody
<1>4. CASE Refused(f)
  <2>1. Idle \in Logins /\ ~Idle.watched /\ Idle.step = "idle"
    BY RestingTypes DEF Idle
  <2>2. leaving.step # "no" => leaving.who # f
    BY <1>4 DEF Refused, Session, OneAsks
  <2>3. signIns' \in 0..MaxSignIns
    BY <1>4 DEF Refused, Session, SessionTypeOK
  <2>4. QED
    BY <1>4, <2>1, <2>2, <2>3, LoginGoesOn DEF Refused
<1>5. QED
  BY <1>2, <1>3, <1>4

LEMMA OutdatedCalls ==
  ASSUME SessionTypeOK, NEW u \in Anyone, calls' = Outdated(u)
  PROVE  /\ calls' \in [Slots -> Call]
         /\ \A c \in Slots : calls'[c].user = calls[c].user /\ calls'[c].mine = calls[c].mine
         /\ \A c \in Slots : calls'[c].current => calls[c].current /\ calls[c].user = u
         /\ \A c \in Slots : calls[c] = NoCall => calls'[c] = NoCall
<1>1. \A c \in Slots : calls[c] \in Call
  BY DEF SessionTypeOK
<1>2. \A c \in Slots : calls'[c] = IF calls[c].user # u THEN [calls[c] EXCEPT !.current = FALSE]
                                ELSE calls[c]
  BY DEF Outdated
<1>3. \A c \in Slots : calls'[c] \in Call
  BY <1>1, <1>2 DEF Call
<1>4. calls' \in [Slots -> Call]
  BY <1>3 DEF Outdated
<1>5. \A c \in Slots : calls'[c].user = calls[c].user /\ calls'[c].mine = calls[c].mine
  BY <1>1, <1>2 DEF Call
<1>6. \A c \in Slots : calls'[c].current => calls[c].current /\ calls[c].user = u
  BY <1>1, <1>2 DEF Call
<1>7. ASSUME NEW c \in Slots, calls[c] = NoCall PROVE calls'[c] = NoCall
  BY <1>2, <1>7 DEF NoCall
<1>8. QED
  BY <1>4, <1>5, <1>6, <1>7

LEMMA GrantedStep ==
  ASSUME Session, NEW f \in Flows, NEW u \in Users, Granted(f, u)
  PROVE  Session'
<1>1. /\ logins' = [logins EXCEPT ![f].step = "card", ![f].user = u]
      /\ UNCHANGED <<cubit, perfil, leaving, signIns>>
  BY DEF Granted
<1>2. /\ logins' \in [Flows -> Logins]
      /\ logins'[f].step = "card" /\ logins'[f].user = u
      /\ logins'[f].watched = logins[f].watched /\ logins'[f].from = logins[f].from
      /\ \A g \in Flows \ {f} : logins'[g] = logins[g]
  <2>1. logins \in [Flows -> Logins] /\ u \in Anyone
    BY DEF Session, SessionTypeOK, Logins, Anyone
  <2>2. logins' = [logins EXCEPT ![f] = [[logins[f] EXCEPT !.step = "card"] EXCEPT !.user = u]]
    BY <1>1, <2>1
  <2>3. [[logins[f] EXCEPT !.step = "card"] EXCEPT !.user = u] \in Logins
    BY <2>1 DEF Logins
  <2>4. QED
    BY <2>1, <2>2, <2>3 DEF Logins
<1>3. /\ calls' \in [Slots -> Call]
      /\ \A c \in Slots : calls'[c].user = calls[c].user /\ calls'[c].mine = calls[c].mine
      /\ \A c \in Slots : calls[c] = NoCall => calls'[c] = NoCall
  BY OutdatedCalls DEF Granted, Session, Anyone
<1>4. /\ storage' \in [userId : Anyone, email : Anyone, name : Anyone]
      /\ excused' \subseteq Users
  BY DEF Granted, Session, SessionTypeOK, Anyone
<1>5. SessionTypeOK'
  BY <1>1, <1>2, <1>3, <1>4 DEF Session, SessionTypeOK, Logins
<1>6. leaving.step # "no" => leaving.who # f
  BY DEF Granted, Session, OneAsks
<1>7. OneAsks'
  BY <1>1, <1>2, <1>3, <1>6 DEF Session, OneAsks
<1>8. Somebody'
  BY <1>1, <1>2, <1>3 DEF Session, Somebody
<1>9. QED
  BY <1>5, <1>7, <1>8 DEF Session

LEMMA SavedStep ==
  ASSUME Session, NEW f \in Flows, SaveLogin(f)
  PROVE  Session'
<1>1. /\ logins' = [logins EXCEPT ![f].step = "opened"]
      /\ UNCHANGED <<cubit, perfil, leaving, excused, signIns>>
      /\ logins[f].step = "card" /\ Asked(logins[f].user, FALSE)
  BY DEF SaveLogin
<1>2. /\ logins' \in [Flows -> Logins]
      /\ logins'[f].step = "opened" /\ logins'[f].user = logins[f].user
      /\ logins'[f].watched = logins[f].watched /\ logins'[f].from = logins[f].from
      /\ \A g \in Flows \ {f} : logins'[g] = logins[g]
  BY <1>1 DEF Session, SessionTypeOK, Logins
<1>3. logins[f].user \in Users /\ logins[f].user \in Anyone
  BY <1>1 DEF Session, Somebody, Anyone
<1>4. /\ calls' \in [Slots -> Call]
      /\ \A c \in Slots : \/ calls'[c] = calls[c]
                          \/ ~calls'[c].mine /\ calls'[c].user \in Users
  <2> DEFINE who == logins[f].user
  <2>1. who \in Users /\ who \in Anyone /\ Asked(who, FALSE)
    BY <1>1, <1>3
  <2> HIDE DEF who
  <2>2. /\ calls' \in [Slots -> Call]
        /\ \A c \in Slots : \/ calls'[c] = calls[c]
                            \/ /\ ~calls'[c].mine /\ calls'[c].user = who
                               /\ calls'[c].current => who = storage.userId
    BY <2>1, AskedInBackground DEF Session
  <2>3. QED
    BY <2>1, <2>2
<1>5. storage' \in [userId : Anyone, email : Anyone, name : Anyone]
  BY <1>3 DEF SaveLogin, Session, SessionTypeOK
<1>6. SessionTypeOK'
  BY <1>1, <1>2, <1>4, <1>5 DEF Session, SessionTypeOK, Logins
<1>7. leaving.step # "no" => leaving.who # f
  BY <1>1 DEF Session, OneAsks
<1>8. OneAsks'
  <2>1. \A c \in Slots : calls'[c].mine => calls[c].mine
    BY <1>4
  <2>2. QED
    BY <1>1, <1>2, <1>7, <2>1 DEF Session, OneAsks
<1>9. Somebody'
  BY <1>1, <1>2, <1>3, <1>4 DEF Session, Somebody
<1>10. QED
  BY <1>6, <1>8, <1>9 DEF Session

(* A sign-in ends, and Perfil loads again: it was idle.                    *)
LEMMA LoginEnds ==
  ASSUME Session, NEW f \in Flows, logins' = [logins EXCEPT ![f] = Idle],
         UNCHANGED <<storage, calls, excused, signIns>>, cubit' \in Anyone,
         perfil' = perfil \/ /\ logins[f].watched /\ logins[f].from # "elsewhere"
                             /\ perfil' = [perfil EXCEPT !.step = "local"],
         \/ leaving' = NotLeaving
         \/ leaving' = leaving /\ (leaving.step # "no" => leaving.who # f)
  PROVE  Session'
<1>1. /\ logins' \in [Flows -> Logins] /\ logins'[f] = Idle
      /\ \A g \in Flows \ {f} : logins'[g] = logins[g]
  BY RestingTypes DEF Session, SessionTypeOK, Logins
<1>2. /\ perfil' \in Profiles /\ perfil'.up = perfil.up /\ perfil'.status = perfil.status
      /\ perfil'.step \in {perfil.step, "local"}
  BY DEF Session, SessionTypeOK, Profiles
<1>3. leaving' \in [who : 0..MaxFlows, step : {"no", "userId", "clear", "reset"}]
  BY RestingTypes DEF Session, SessionTypeOK
<1>4. \A c \in Slots : calls'[c].mine => perfil'.step = "wait"
  <2>1. perfil' # perfil => perfil.step = "idle"
    BY DEF Session, OneAsks
  <2>2. QED
    BY <2>1 DEF Session, SessionTypeOK
<1>5. SessionTypeOK'
  BY <1>1, <1>2, <1>3, <1>4 DEF Session, SessionTypeOK, Logins, Profiles
<1>6. perfil' # perfil => logins[f].watched
  OBVIOUS
<1>7. OneAsks'
  <2>1. \A g \in Flows : logins'[g].watched => g # f /\ logins[g].watched /\ logins'[g] = logins[g]
    BY <1>1 DEF Idle
  <2>2. perfil' # perfil => \A g \in Flows : ~logins'[g].watched
    BY <1>6, <2>1 DEF Session, OneAsks
  <2>3. \A g \in Flows : leaving'.who = g /\ leaving'.step # "no" =>
          g # f /\ logins[g].watched /\ logins[g].step = "leaving"
    BY DEF Session, OneAsks, NotLeaving
  <2>4. \A c, d \in Slots : calls'[c].mine /\ calls'[d].mine => c = d
    BY DEF Session, OneAsks
  <2>5. perfil'.status = "guest" => perfil'.step \notin {"ask", "wait"}
    BY <1>2 DEF Session, OneAsks
  <2>6. QED
    BY <1>1, <1>2, <2>1, <2>2, <2>3, <2>4, <2>5 DEF Session, OneAsks
<1>8. Somebody'
  BY <1>1 DEF Session, Somebody, Idle
<1>9. QED
  BY <1>5, <1>7, <1>8 DEF Session

LEMMA EndStep ==
  ASSUME Session, NEW f \in Flows, Stay(f) \/ SignOutEnds(f)
  PROVE  Session'
<1>1. CASE Stay(f)
  <2>1. leaving.step # "no" => leaving.who # f
    BY <1>1 DEF Stay, Session, OneAsks
  <2>2. cubit' \in Anyone
    BY <1>1 DEF Stay, Session, SessionTypeOK
  <2>3. QED
    BY <1>1, <2>1, <2>2, LoginEnds DEF Stay, Reloaded
<1>2. CASE SignOutEnds(f)
  <2>1. logins[f].watched
    BY <1>2 DEF SignOutEnds, Session, OneAsks
  <2>2. cubit' \in Anyone
    BY <1>2 DEF SignOutEnds, ResetCubit, Anyone
  <2>3. QED
    BY <1>2, <2>1, <2>2, LoginEnds DEF SignOutEnds, Reloaded
<1>3. QED
  BY <1>1, <1>2

LEMMA RatherStep ==
  ASSUME Session, NEW f \in Flows, RatherLeave(f)
  PROVE  Session'
<1>1. /\ logins' = [logins EXCEPT ![f].step = "leaving"]
      /\ leaving' = [who |-> f, step |-> "userId"]
      /\ logins[f].step = "opened" /\ logins[f].watched
      /\ UNCHANGED <<storage, cubit, calls, perfil, excused, signIns>>
  BY DEF RatherLeave
<1>2. /\ logins' \in [Flows -> Logins]
      /\ logins'[f].step = "leaving" /\ logins'[f].user = logins[f].user
      /\ logins'[f].watched /\ logins'[f].from = logins[f].from
      /\ \A g \in Flows \ {f} : logins'[g] = logins[g]
  BY <1>1 DEF Session, SessionTypeOK, Logins
<1>3. leaving' \in [who : 0..MaxFlows, step : {"no", "userId", "clear", "reset"}]
  BY <1>1, FlowsAreNumbered
<1>4. SessionTypeOK'
  BY <1>1, <1>2, <1>3 DEF Session, SessionTypeOK, Logins
<1>5. OneAsks'
  BY <1>1, <1>2 DEF Session, OneAsks
<1>6. Somebody'
  BY <1>1, <1>2 DEF Session, Somebody
<1>7. QED
  BY <1>4, <1>5, <1>6 DEF Session

LEMMA LeavingStep ==
  ASSUME Session, ConfirmLogout \/ DeleteUserId \/ ClearProfile
  PROVE  Session'
<1>1. \A f \in Flows : leaving'.who = f /\ leaving'.step # "no" =>
        leaving.who = f /\ leaving.step # "no"
  BY FlowsAreNumbered DEF ConfirmLogout, DeleteUserId, ClearProfile, Session, SessionTypeOK
<1>2. leaving' \in [who : 0..MaxFlows, step : {"no", "userId", "clear", "reset"}]
  BY FlowsAreNumbered
     DEF ConfirmLogout, DeleteUserId, ClearProfile, Session, SessionTypeOK, Perfil
<1>3. UNCHANGED <<cubit, perfil, logins, signIns>>
  BY DEF ConfirmLogout, DeleteUserId, ClearProfile
<1>4. storage' \in [userId : Anyone, email : Anyone, name : Anyone]
  BY DEF ConfirmLogout, DeleteUserId, ClearProfile, Session, SessionTypeOK, Anyone
<1>5. /\ calls' \in [Slots -> Call]
      /\ \A c \in Slots : calls'[c].user = calls[c].user /\ calls'[c].mine = calls[c].mine
      /\ \A c \in Slots : calls[c] = NoCall => calls'[c] = NoCall
  <2>1. CASE DeleteUserId
    BY <2>1, OutdatedCalls DEF DeleteUserId, Session, Anyone
  <2>2. CASE UNCHANGED calls
    BY <2>2 DEF Session, SessionTypeOK
  <2>3. QED
    BY <2>1, <2>2 DEF ConfirmLogout, ClearProfile
<1>6. excused' \subseteq Users
  <2>1. {logins[f].user : f \in {g \in Flows : Entering(g)}} \subseteq Users
    BY DEF Session, Somebody, Entering
  <2>2. QED
    BY <2>1 DEF ConfirmLogout, DeleteUserId, ClearProfile, Session, SessionTypeOK
<1>7. SessionTypeOK'
  BY <1>2, <1>3, <1>4, <1>5, <1>6 DEF Session, SessionTypeOK
<1>8. OneAsks' /\ Somebody'
  BY <1>1, <1>3, <1>5 DEF Session, OneAsks, Somebody
<1>9. QED
  BY <1>7, <1>8 DEF Session

LEMMA LogoutStep == ASSUME Session, LogoutEnds PROVE Session'
<1>1. perfil' \in Profiles /\ perfil' = NewPerfil /\ cubit' \in Anyone
  BY RestingTypes DEF LogoutEnds, ResetCubit, Anyone
<1>2. /\ calls' \in [Slots -> Call]
      /\ \A c \in Slots : ~calls'[c].mine /\ calls'[c].user = calls[c].user
      /\ \A c \in Slots : calls[c] = NoCall => calls'[c] = NoCall
  <2>1. \A c \in Slots : calls[c] \in Call
    BY DEF Session, SessionTypeOK
  <2>2. \A c \in Slots : calls'[c] = [calls[c] EXCEPT !.mine = FALSE]
    BY DEF LogoutEnds, Orphaned
  <2>3. \A c \in Slots : /\ calls'[c] \in Call
                         /\ ~calls'[c].mine /\ calls'[c].user = calls[c].user
    BY <2>1, <2>2 DEF Call
  <2>4. ASSUME NEW c \in Slots, calls[c] = NoCall PROVE calls'[c] = NoCall
    BY <2>2, <2>4 DEF NoCall
  <2>5. QED
    BY <2>3, <2>4 DEF LogoutEnds, Orphaned
<1>3. /\ logins' \in [Flows -> Logins]
      /\ \A f \in Flows : /\ ~logins'[f].watched
                          /\ logins'[f].step = logins[f].step /\ logins'[f].user = logins[f].user
  <2>1. \A f \in Flows : logins[f] \in Logins
    BY DEF Session, SessionTypeOK, Logins
  <2>2. QED
    BY <2>1, UnwatchedLogin DEF LogoutEnds
<1>4. leaving' = NotLeaving
      /\ leaving' \in [who : 0..MaxFlows, step : {"no", "userId", "clear", "reset"}]
  BY RestingTypes DEF LogoutEnds
<1>5. SessionTypeOK'
  BY <1>1, <1>2, <1>3, <1>4 DEF LogoutEnds, Session, SessionTypeOK, Profiles, Logins
<1>6. OneAsks'
  BY <1>1, <1>2, <1>3, <1>4 DEF OneAsks, NewPerfil, NotLeaving
<1>7. Somebody'
  BY <1>2, <1>3 DEF Session, Somebody
<1>8. QED
  BY <1>5, <1>6, <1>7 DEF Session

LEMMA SessionStep == ASSUME Session, SessionNext PROVE Session'
BY LoadStep, AnswerStep, SigningIn, GrantedStep, SavedStep, EndStep, RatherStep,
   LeavingStep, LogoutStep DEF SessionNext, SignsIn

-----------------------------------------------------------------------------
(* Whose data there is.                                                    *)

LEMMA WhoseStarts == SessionInit => WhoseData
BY DEF SessionInit, WhoseData, Owners, NoCall, NotLeaving, Entering, Idle

LEMMA WhoseKept == ASSUME WhoseData, UNCHANGED sesVars PROVE WhoseData'
BY DEF WhoseData, Owners, Entering, sesVars

LEMMA WhoseDies ==
  ASSUME Session, WhoseData, SessionForgotten, UNCHANGED storage PROVE WhoseData'
<1>1. storage.email \in Owners' /\ storage.name \in Owners'
  <2>1. CASE leaving = NotLeaving
    BY <2>1 DEF SessionForgotten, WhoseData, NotLeaving, Owners
  <2>2. CASE leaving # NotLeaving
    BY <2>2 DEF SessionForgotten, Owners
  <2>3. QED
    BY <2>1, <2>2
<1>2. QED
  BY <1>1 DEF SessionForgotten, WhoseData, Owners, NoCall, NotLeaving, Entering, Idle

(* What a step of the session leaves may be told from its new Owners.      *)
LEMMA WhoseStep == ASSUME Session, WhoseData, SessionNext PROVE WhoseData'
<1>1. ASSUME ReadLocalId \/ LoadDecides \/ RetryProfile PROVE WhoseData'
  BY <1>1 DEF ReadLocalId, LoadDecides, RetryProfile, WhoseData, Owners, Entering
<1>2. ASSUME LoadUser PROVE WhoseData'
  <2>1. UNCHANGED <<storage, cubit, logins, leaving, excused>>
    BY <1>2 DEF LoadUser
  <2>2. \A c \in Slots : calls'[c].current => calls'[c].user = storage.userId
    <3>1. CASE UNCHANGED calls
      BY <3>1 DEF WhoseData
    <3>2. CASE Asked(storage.userId, TRUE)
      <4>1. storage.userId \in Anyone
        BY DEF Session, SessionTypeOK
      <4>2. QED
        BY <3>2, <4>1, AskedByPerfil DEF Session, WhoseData
    <3>3. QED
      BY <1>2, <3>1, <3>2 DEF LoadUser
  <2>3. QED
    BY <2>1, <2>2 DEF WhoseData, Owners, Entering
<1>3. ASSUME NEW c \in Slots, ProfileFails(c) PROVE WhoseData'
  BY <1>3 DEF ProfileFails, WhoseData, Owners, Entering, NoCall, Session, SessionTypeOK
<1>4. ASSUME NEW c \in Slots, ProfileArrives(c) PROVE WhoseData'
  <2>1. calls[c].user \in Owners'
    BY <1>4 DEF ProfileArrives, WhoseData, Owners, Session, SessionTypeOK
  <2>2. Owners \subseteq Owners'
    BY <1>4 DEF ProfileArrives, Owners, Session, SessionTypeOK
  <2>3. /\ storage'.email = storage.email /\ storage'.userId = storage.userId
        /\ storage'.name \in {storage.name, calls[c].user}
    BY <1>4 DEF ProfileArrives, Session, SessionTypeOK
  <2>4. \A d \in Slots : calls'[d].current => calls'[d].user = storage'.userId
    BY <1>4, <2>3 DEF ProfileArrives, WhoseData, NoCall, Session, SessionTypeOK
  <2>5. QED
    BY <1>4, <2>1, <2>2, <2>3, <2>4 DEF ProfileArrives, WhoseData, Entering
<1>5. ASSUME NEW f \in Flows, SignIn(f) \/ CloseSheet(f) \/ Refused(f) \/ Stay(f) \/ RatherLeave(f)
      PROVE  WhoseData'
  <2>1. UNCHANGED <<storage, cubit, calls, excused>>
    BY <1>5 DEF SignIn, CloseSheet, Refused, Stay, RatherLeave
  <2>2. \A g \in Flows : Entering(g)' => Entering(g) /\ logins'[g].user = logins[g].user
    <3>1. logins \in [Flows -> Logins]
      BY DEF Session, SessionTypeOK, Logins
    <3>2. CASE CloseSheet(f)
      BY <3>1, <3>2, UnwatchedLogin DEF CloseSheet, Entering
    <3>3. CASE SignIn(f)
      BY <3>1, <3>3 DEF SignIn, Entering
    <3>4. CASE Refused(f) \/ Stay(f)
      BY <3>1, <3>4 DEF Refused, Stay, Entering, Idle
    <3>5. CASE RatherLeave(f)
      BY <3>1, <3>5 DEF RatherLeave, Entering, Logins
    <3>6. QED
      BY <1>5, <3>2, <3>3, <3>4, <3>5
  <2>3. leaving' = leaving \/ leaving.step = "no"
    BY <1>5 DEF SignIn, CloseSheet, Refused, Stay, RatherLeave, NotLeaving
  <2>4. QED
    BY <2>1, <2>2, <2>3 DEF WhoseData, Owners
<1>6. ASSUME NEW f \in Flows, NEW u \in Users, Granted(f, u) PROVE WhoseData'
  <2>1. /\ storage'.userId = u /\ storage'.email = storage.email /\ storage'.name = storage.name
        /\ UNCHANGED <<cubit, leaving>>
    BY <1>6 DEF Granted, Session, SessionTypeOK
  <2>2. Owners \cup {cubit, u} \subseteq Owners'
    BY <1>6, <2>1 DEF Granted, Owners
  <2>3. \A c \in Slots : calls'[c].current => calls'[c].user = u
    BY <1>6, OutdatedCalls DEF Granted, Session, Anyone
  <2>4. \A g \in Flows : Entering(g)' =>
         logins'[g].user = u \/ (Entering(g) /\ logins'[g].user = logins[g].user)
    BY <1>6 DEF Granted, Entering, Session, SessionTypeOK
  <2>5. QED
    BY <2>1, <2>2, <2>3, <2>4 DEF WhoseData
<1>7. ASSUME NEW f \in Flows, SaveLogin(f) PROVE WhoseData'
  <2>1. /\ storage'.email = logins[f].user
        /\ storage'.userId = storage.userId /\ storage'.name = storage.name
        /\ UNCHANGED <<cubit, leaving, excused>>
    BY <1>7 DEF SaveLogin, Session, SessionTypeOK
  <2>2. logins[f].user \in Owners /\ logins[f].user \in Anyone
    BY <1>7 DEF SaveLogin, WhoseData, Entering, Session, SessionTypeOK
  <2>3. \A c \in Slots : calls'[c].current => calls'[c].user = storage.userId
    BY <1>7, <2>2, AskedInBackground DEF SaveLogin, Session, WhoseData
  <2>4. \A g \in Flows : Entering(g)' => Entering(g) /\ logins'[g].user = logins[g].user
    BY <1>7 DEF SaveLogin, Entering, Session, SessionTypeOK
  <2>5. QED
    BY <2>1, <2>2, <2>3, <2>4 DEF WhoseData, Owners
<1>8. ASSUME ConfirmLogout PROVE WhoseData'
  BY <1>8 DEF ConfirmLogout, WhoseData, Owners, Entering, NotLeaving
<1>9. ASSUME DeleteUserId PROVE WhoseData'
  <2>1. /\ storage'.userId = NoUser /\ leaving'.step = "clear" /\ UNCHANGED logins
        /\ excused' = excused \cup {logins[f].user : f \in {g \in Flows : Entering(g)}}
    BY <1>9 DEF DeleteUserId, Session, SessionTypeOK
  <2>2. \A c \in Slots : calls'[c].current => calls'[c].user = NoUser
    BY <1>9, OutdatedCalls DEF DeleteUserId, Session, Anyone
  <2>3. QED
    BY <2>1, <2>2 DEF WhoseData, Owners, Entering
<1>10. ASSUME ClearProfile PROVE WhoseData'
  <2>1. /\ storage'.userId = storage.userId /\ storage'.email = NoUser /\ storage'.name = NoUser
        /\ leaving'.step = "reset" /\ UNCHANGED <<cubit, calls, logins, excused>>
    BY <1>10 DEF ClearProfile, Session, SessionTypeOK
  <2>2. QED
    BY <2>1 DEF WhoseData, Owners, Entering
<1>11. ASSUME LogoutEnds PROVE WhoseData'
  <2>1. /\ cubit' = NoUser /\ leaving.step = "reset" /\ UNCHANGED <<storage, excused>>
    BY <1>11 DEF LogoutEnds, ResetCubit
  <2>2. \A c \in Slots : calls'[c].current = calls[c].current /\ calls'[c].user = calls[c].user
    BY <1>11 DEF LogoutEnds, Orphaned, Session, SessionTypeOK, Call
  <2>3. \A f \in Flows : logins'[f].step = logins[f].step /\ logins'[f].user = logins[f].user
    <3>1. logins \in [Flows -> Logins]
      BY DEF Session, SessionTypeOK, Logins
    <3>2. QED
      BY <1>11, <3>1, UnwatchedLogin DEF LogoutEnds
  <2>4. QED
    BY <2>1, <2>2, <2>3 DEF WhoseData, Owners, Entering
<1>12. ASSUME NEW f \in Flows, SignOutEnds(f) PROVE WhoseData'
  <2>1. /\ cubit' = NoUser /\ leaving.step = "reset" /\ UNCHANGED <<storage, calls, excused>>
    BY <1>12 DEF SignOutEnds, ResetCubit
  <2>2. \A g \in Flows : Entering(g)' => Entering(g) /\ logins'[g].user = logins[g].user
    BY <1>12 DEF SignOutEnds, Entering, Idle, Session, SessionTypeOK
  <2>3. QED
    BY <2>1, <2>2 DEF WhoseData, Owners
<1>13. QED
  BY <1>1, <1>2, <1>3, <1>4, <1>5, <1>6, <1>7, <1>8, <1>9, <1>10, <1>11, <1>12
     DEF SessionNext, SignsIn

-----------------------------------------------------------------------------
(* The phone.                                                              *)

AppTypes ==
  /\ stage \in {"off", "check", "wipe", "mark", "splash", "tabs"}
  /\ marker \in BOOLEAN /\ remains \in BOOLEAN /\ failed \in BOOLEAN
  /\ starts \in 0..MaxStarts /\ installs \in 1..MaxInstalls

LEMMA PhoneParts ==
  PhoneInv <=> Identity /\ Session /\ AppTypes /\ WhoseData /\ OnlyStorage /\ Marked
BY DEF PhoneInv, TypeOK, Identity, Session, AppTypes

LEMMA PhoneStarts == Init => PhoneInv
<1> SUFFICES ASSUME Init PROVE PhoneInv
  OBVIOUS
<1>1. Identity /\ Session /\ WhoseData
  BY IdentityStarts, SessionStarts, WhoseStarts DEF Init
<1>2. AppTypes
  <2>1. 0 \in 0..MaxStarts /\ 1 \in 1..MaxInstalls
    BY BoundsAssumption
  <2>2. QED
    BY <2>1 DEF Init, AppTypes
<1>3. OnlyStorage
  BY DEF Init, SessionInit, OnlyStorage, NoPerfil
<1>4. Marked
  BY DEF Init, SessionInit, Marked, Empty
<1>5. QED
  BY <1>1, <1>2, <1>3, <1>4, PhoneParts

(* The steps of the start-up leave the session and the identity alone, but *)
(* for the wipe of what is stored.                                         *)
LEMMA StartStep ==
  ASSUME PhoneInv, Launch \/ GuardChecks \/ GuardMarks \/ GuardFails \/ Reinstall
  PROVE  PhoneInv'
<1>1. UNCHANGED idVars /\ UNCHANGED sesVars
  BY DEF Launch, GuardChecks, GuardMarks, GuardFails, Reinstall
<1>2. Identity' /\ Session' /\ WhoseData'
  BY <1>1, IdentityKept, SessionKept, WhoseKept, PhoneParts
<1>3. AppTypes'
  <2>1. AppTypes
    BY PhoneParts
  <2>2. starts' \in 0..MaxStarts /\ installs' \in 1..MaxInstalls
    BY <2>1, BoundsAssumption
       DEF Launch, GuardChecks, GuardMarks, GuardFails, Reinstall, AppTypes
  <2>3. marker' \in BOOLEAN /\ remains' \in BOOLEAN /\ failed' \in BOOLEAN
    BY <2>1 DEF Launch, GuardChecks, GuardMarks, GuardFails, Reinstall, AppTypes
  <2>4. stage' \in {"off", "check", "wipe", "mark", "splash", "tabs"}
    BY <2>1 DEF Launch, GuardChecks, GuardMarks, GuardFails, Reinstall, AppTypes
  <2>5. QED
    BY <2>2, <2>3, <2>4 DEF AppTypes
<1>4. OnlyStorage'
  <2>1. stage # "tabs"
    BY DEF Launch, GuardChecks, GuardMarks, GuardFails, Reinstall
  <2>2. QED
    BY <1>1, <2>1 DEF PhoneInv, OnlyStorage, sesVars
<1>5. Marked'
  <2>1. storage' = storage
    BY <1>1 DEF sesVars
  <2>2. Marked
    BY DEF PhoneInv
  <2>3. CASE Launch
    BY <2>1, <2>2, <2>3 DEF Launch, Marked
  <2>4. CASE GuardChecks
    BY <2>1, <2>2, <2>4 DEF GuardChecks, Marked
  <2>5. CASE GuardMarks
    BY <2>1, <2>2, <2>5 DEF GuardMarks, Marked
  <2>6. CASE GuardFails
    BY <2>1, <2>2, <2>6 DEF GuardFails, Marked
  <2>7. CASE Reinstall
    BY <2>1, <2>2, <2>7 DEF Reinstall, Marked
  <2>8. QED
    BY <2>3, <2>4, <2>5, <2>6, <2>7
<1>6. QED
  BY <1>2, <1>3, <1>4, <1>5 DEF PhoneInv, TypeOK, Identity, Session, AppTypes

LEMMA WipeStep == ASSUME PhoneInv, GuardWipes PROVE PhoneInv'
<1>1. /\ storage' = Empty /\ storage'.userId = NoUser /\ storage'.email = NoUser
      /\ storage'.name = NoUser /\ stage = "wipe" /\ stage' = "mark"
      /\ UNCHANGED <<idVars, cubit, calls, perfil, logins, leaving, excused, signIns>>
  BY DEF GuardWipes, Wiped, Empty, idVars
<1>2. /\ cubit = NoUser /\ \A c \in Slots : calls[c] = NoCall
      /\ \A f \in Flows : logins[f] = Idle
  BY <1>1 DEF PhoneInv, OnlyStorage
<1>3. Identity'
  BY <1>1, IdentityKept, PhoneParts DEF idVars
<1>4. Session'
  BY <1>1, RestingTypes, PhoneParts DEF Session, SessionTypeOK, OneAsks, Somebody
<1>5. WhoseData'
  BY <1>1, <1>2 DEF WhoseData, Owners, Entering, NoCall, Idle
<1>6. AppTypes'
  BY <1>1, PhoneParts DEF GuardWipes, AppTypes
<1>7. OnlyStorage' /\ Marked'
  BY <1>1 DEF GuardWipes, PhoneInv, OnlyStorage, Marked
<1>8. QED
  BY <1>3, <1>4, <1>5, <1>6, <1>7 DEF PhoneInv, TypeOK, Identity, Session, AppTypes

LEMMA TabsOpen == ASSUME PhoneInv, ToTabs PROVE PhoneInv'
<1>1. stage = "splash" /\ stage' = "tabs" /\ EnterTabs
      /\ UNCHANGED <<idVars, marker, remains, failed, starts, installs>>
  BY DEF ToTabs
<1>2. perfil.step = "idle"
  BY <1>1 DEF PhoneInv, OnlyStorage
<1>3. Identity' /\ Session'
  BY <1>1, <1>2, IdentityKept, TabsStep, PhoneParts DEF idVars
<1>4. storage' = storage /\ UNCHANGED <<cubit, logins, leaving, excused>>
  BY <1>1 DEF EnterTabs
<1>5. WhoseData'
  <2>1. \A c \in Slots : calls'[c].current => calls'[c].user = storage.userId
    <3>1. CASE UNCHANGED calls
      BY <3>1 DEF PhoneInv, WhoseData
    <3>2. CASE Asked(storage.userId, FALSE)
      <4>1. storage.userId \in Anyone /\ SessionTypeOK
        BY DEF PhoneInv, TypeOK, SessionTypeOK
      <4>2. QED
        BY <3>2, <4>1, AskedInBackground DEF PhoneInv, WhoseData
    <3>3. QED
      BY <1>1, <3>1, <3>2 DEF EnterTabs
  <2>2. QED
    BY <1>4, <2>1 DEF PhoneInv, WhoseData, Owners, Entering
<1>6. AppTypes'
  BY <1>1, PhoneParts DEF AppTypes
<1>7. OnlyStorage' /\ Marked'
  BY <1>1, <1>4 DEF PhoneInv, OnlyStorage, Marked
<1>8. QED
  BY <1>3, <1>5, <1>6, <1>7 DEF PhoneInv, TypeOK, Identity, Session, AppTypes

(* With the marker missing, a session is only stored where the guard failed. *)
LEMMA UseStep == ASSUME PhoneInv, Use PROVE PhoneInv'
<1>1. stage = "tabs" /\ UNCHANGED appVars
  BY DEF Use
<1>2. Identity' /\ Session' /\ WhoseData'
  <2>1. CASE SessionNext /\ UNCHANGED idVars
    BY <2>1, IdentityKept, SessionStep, WhoseStep, PhoneParts
  <2>2. CASE IdentityNext /\ UNCHANGED sesVars
    BY <2>2, IdentityStep, SessionKept, WhoseKept, PhoneParts
  <2>3. QED
    BY <2>1, <2>2 DEF Use
<1>3. AppTypes'
  BY <1>1, PhoneParts DEF AppTypes, appVars
<1>4. OnlyStorage' /\ Marked'
  BY <1>1 DEF PhoneInv, OnlyStorage, Marked, appVars
<1>5. QED
  BY <1>2, <1>3, <1>4 DEF PhoneInv, TypeOK, Identity, Session, AppTypes

LEMMA DieStep == ASSUME PhoneInv, Die PROVE PhoneInv'
<1>1. /\ IdentityForgotten /\ SessionForgotten /\ stage' = "off"
      /\ UNCHANGED <<secret, handed, storage, signIns, marker, remains, failed, starts, installs>>
  BY DEF Die
<1>2. Identity' /\ Session' /\ WhoseData'
  BY <1>1, IdentityDies, SessionDies, WhoseDies, PhoneParts
<1>3. AppTypes'
  BY <1>1, PhoneParts DEF AppTypes
<1>4. OnlyStorage'
  BY <1>1 DEF SessionForgotten, OnlyStorage, NoPerfil
<1>5. Marked'
  BY <1>1 DEF PhoneInv, Marked
<1>6. QED
  BY <1>2, <1>3, <1>4, <1>5 DEF PhoneInv, TypeOK, Identity, Session, AppTypes

LEMMA PhoneStep == PhoneInv /\ [Next]_vars => PhoneInv'
<1> SUFFICES ASSUME PhoneInv, [Next]_vars PROVE PhoneInv'
  OBVIOUS
<1>1. CASE UNCHANGED vars
  <2>1. UNCHANGED idVars /\ UNCHANGED sesVars /\ UNCHANGED appVars
    BY <1>1 DEF vars
  <2>2. Identity' /\ Session' /\ WhoseData'
    BY <2>1, IdentityKept, SessionKept, WhoseKept, PhoneParts
  <2>3. AppTypes' /\ OnlyStorage' /\ Marked'
    BY <2>1, PhoneParts DEF AppTypes, OnlyStorage, Marked, appVars, sesVars
  <2>4. QED
    BY <2>2, <2>3 DEF PhoneInv, TypeOK, Identity, Session, AppTypes
<1>2. CASE Next
  BY <1>2, StartStep, WipeStep, TabsOpen, UseStep, DieStep DEF Next
<1>3. QED
  BY <1>1, <1>2

(* What the steps keep holds always.                                       *)
THEOREM PhoneIsConsistent == Spec => []PhoneInv
BY PhoneStarts, PhoneStep, PTL DEF Spec

-----------------------------------------------------------------------------

(* Every variable keeps to its type, for any users and any bounds.         *)
THEOREM PhoneTypeCorrect == Spec => []TypeOK
<1>1. PhoneInv => TypeOK
  BY DEF PhoneInv
<1>2. QED
  BY <1>1, PhoneIsConsistent, PTL

(* One phone, one identity: whatever survey pages open, close, fail and    *)
(* ask at once, and through restarts and reinstalls, what any of them was  *)
(* ever given is the secret of the Keychain (KeychainLocalIdSource).       *)
THEOREM PhoneHasOneIdentity == Spec => []OneIdentity
<1>1. PhoneInv => OneIdentity
  BY DEF PhoneInv, OneReader, OneIdentity
<1>2. QED
  BY <1>1, PhoneIsConsistent, PTL

(* What the phone keeps and shows of a user is the stored session's, but   *)
(* for the four doors that `excused` names (UserCubit, SettingsPresenter). *)
THEOREM DataIsTheSessions == Spec => []OnlyTheSessionsData
<1>1. PhoneInv => OnlyTheSessionsData
  BY DEF PhoneInv, WhoseData, Owners, OnlyTheSessionsData, AtRest
<1>2. QED
  BY <1>1, PhoneIsConsistent, PTL

(* No screen is reached with something of an earlier installation still    *)
(* stored, unless the guard failed (FreshInstallGuard.ensure).             *)
THEOREM InstallationsStartClean == Spec => []StartsClean
<1>1. PhoneInv => StartsClean
  BY DEF PhoneInv, Marked, StartsClean, TypeOK
<1>2. QED
  BY <1>1, PhoneIsConsistent, PTL

(* The guard never wipes what this installation has stored itself.         *)
THEOREM NothingOfItsOwnIsWiped == Spec => OwnDataIsKept
<1>1. PhoneInv /\ [Next]_vars => [stage = "wipe" /\ storage' # storage => remains \/ failed]_vars
  <2> SUFFICES ASSUME PhoneInv, Next, stage = "wipe", storage' # storage
               PROVE  remains \/ failed
    BY DEF vars, sesVars
  <2>1. GuardWipes
    BY DEF Next, Launch, GuardChecks, GuardMarks, GuardFails, ToTabs, Use, Die, Reinstall, sesVars
  <2>2. storage # Empty /\ stage = "wipe"
    BY <2>1 DEF GuardWipes, Wiped
  <2>3. ~marker
    BY <2>2 DEF PhoneInv, Marked
  <2>4. QED
    BY <2>2, <2>3 DEF PhoneInv, Marked
<1>2. QED
  BY <1>1, PhoneIsConsistent, PTL DEF Spec, OwnDataIsKept

=============================================================================
