----------------------------- MODULE UserSession -----------------------------
(***************************************************************************)
(* The session of the app's user: what secure storage keeps of it, the     *)
(* global UserCubit with its getUserInfo calls in flight, the Perfil tab   *)
(* (SettingsScreen and its presenter), signing in (LoginPresenter, from a  *)
(* sheet or from the tab) and signing out.                                 *)
(*                                                                         *)
(* Every await is a step.  A call in flight knows whether the session it   *)
(* was made for is still the stored one (`current`, history): the code     *)
(* does not.                                                               *)
(***************************************************************************)
EXTENDS Naturals, FiniteSets

CONSTANTS
  Users,
  MaxFlows,    \* bound: sign-ins in course at a time
  NoUser,
  MaxCalls,    \* bound: getUserInfo calls in flight
  MaxSignIns   \* bound: sign-ins begun

ASSUME UserAssumption ==
  /\ NoUser \notin Users
  /\ MaxFlows \in Nat /\ MaxCalls \in Nat /\ MaxSignIns \in Nat

VARIABLES
  storage,     \* userId, session_email (with its provider) and session_name, by owner
  cubit,       \* UserCubit.state: NoUser for UserInitial, else who is loaded
  calls,       \* getUserInfo in flight, by slot
  perfil,      \* the Perfil tab on screen
  logins,      \* sign-ins
  leaving,     \* the sign-out in course: whose it is and its next step
  excused,     \* users that may linger (history; see OnlyTheSessionsData)
  signIns      \* sign-ins begun

sesVars == <<storage, cubit, calls, perfil, logins, leaving, excused, signIns>>

Anyone  == Users \cup {NoUser}
Flows   == 1..MaxFlows
Slots   == 1..MaxCalls
Call    == [user : Anyone, mine : BOOLEAN, current : BOOLEAN]
NoCall  == [user |-> NoUser, mine |-> FALSE, current |-> FALSE]
Flying(c) == calls[c] # NoCall

(* getUserInfo is called for u; mine: by the Perfil on screen, which waits. *)
Asked(u, mine) ==
  \E c \in Slots :
    /\ ~Flying(c) /\ \A d \in Slots : d < c => Flying(d)
    /\ calls' = [calls EXCEPT ![c] =
                   [user |-> u, mine |-> mine, current |-> storage.userId = u]]

NoPerfil  == [up |-> FALSE, status |-> "checking", step |-> "idle"]
NewPerfil == [up |-> TRUE, status |-> "checking", step |-> "local"]

Idle       == [step |-> "idle", user |-> NoUser, from |-> "elsewhere", watched |-> FALSE]
Perfil     == 0       \* a sign-out of the tab; those of a sign-in have its number
NotLeaving == [who |-> 0, step |-> "no"]

(* The calls made before the stored session changed to u.                  *)
Outdated(u) == [c \in Slots |->
  IF calls[c].user # u THEN [calls[c] EXCEPT !.current = FALSE] ELSE calls[c]]

(* SettingsScreen.build: without a loaded user the status decides.         *)
ShowsGuest   == perfil.up /\ cubit = NoUser /\ perfil.status = "guest"
ShowsSession == perfil.up /\ (cubit # NoUser \/ perfil.status \in {"loading", "error"})
Uncovered    == \A f \in Flows : logins[f].watched => logins[f].from = "perfil"
Waits        == perfil.up /\ cubit = NoUser /\ perfil.status \in {"checking", "loading"}

Unwatched(l) == [l EXCEPT !.watched = FALSE, !.from = "elsewhere"]

(* Nobody is half in or half out.                                          *)
Entering(f) == logins[f].step = "card"
AtRest == leaving.step = "no" /\ \A f \in Flows : ~Entering(f)

SessionInit ==
  /\ storage = [userId |-> NoUser, email |-> NoUser, name |-> NoUser]
  /\ cubit = NoUser
  /\ calls = [c \in Slots |-> NoCall]
  /\ perfil = NoPerfil
  /\ logins = [f \in Flows |-> Idle]
  /\ leaving = NotLeaving
  /\ excused = {} /\ signIns = 0

(* The process ends: only storage is left.  A sign-out cut short leaves    *)
(* behind what it had not deleted yet.                                     *)
SessionForgotten ==
  /\ cubit' = NoUser
  /\ calls' = [c \in Slots |-> NoCall]
  /\ perfil' = NoPerfil
  /\ logins' = [f \in Flows |-> Idle]
  /\ leaving' = NotLeaving
  /\ excused' = IF leaving = NotLeaving THEN excused
                ELSE excused \cup ({storage.email, storage.name} \ {NoUser})

-----------------------------------------------------------------------------
(* Splash and Perfil.                                                      *)

(* The splash screen reads userId, asks for the profile without waiting    *)
(* and goes to the tabs, where Perfil starts its own load.                 *)
EnterTabs ==
  /\ ~perfil.up
  /\ IF storage.userId # NoUser /\ cubit = NoUser
     THEN Asked(storage.userId, FALSE) ELSE UNCHANGED calls
  /\ perfil' = NewPerfil
  /\ UNCHANGED <<storage, cubit, logins, leaving, excused, signIns>>

(* _readLocal: the id first, the rest of the local session after it.       *)
ReadLocalId ==
  /\ perfil.step = "local"
  /\ perfil' = [perfil EXCEPT !.step = IF storage.userId = NoUser THEN "none" ELSE "some"]
  /\ UNCHANGED <<storage, cubit, calls, logins, leaving, excused, signIns>>

(* _load, once the local session is read.                                  *)
LoadDecides ==
  /\ perfil.step \in {"none", "some"}
  /\ perfil' = IF perfil.step = "none" /\ cubit = NoUser
               THEN [perfil EXCEPT !.status = "guest", !.step = "idle"]
               ELSE [perfil EXCEPT !.status = "loading", !.step = "ask"]
  /\ UNCHANGED <<storage, cubit, calls, logins, leaving, excused, signIns>>

(* loadUser reads userId again and asks for the profile.                   *)
LoadUser ==
  /\ perfil.step = "ask"
  /\ IF storage.userId = NoUser
     THEN /\ perfil' = [perfil EXCEPT !.status = "guest", !.step = "idle"]
          /\ UNCHANGED calls
     ELSE /\ perfil' = [perfil EXCEPT !.step = "wait"]
          /\ Asked(storage.userId, TRUE)
  /\ UNCHANGED <<storage, cubit, logins, leaving, excused, signIns>>

RetryProfile ==
  /\ perfil.up /\ perfil.status = "error" /\ cubit = NoUser /\ perfil.step = "idle"
  /\ Uncovered
  /\ perfil' = [perfil EXCEPT !.status = "loading", !.step = "ask"]
  /\ UNCHANGED <<storage, cubit, calls, logins, leaving, excused, signIns>>

(* loadUser's await returns only for the call of the Perfil on screen.     *)
ReturnedUnread(p, c, status) ==
  IF calls[c].mine THEN [p EXCEPT !.step = "idle"] ELSE p
Returned(p, c, status) ==
  IF calls[c].mine THEN [p EXCEPT !.step = "idle", !.status = status] ELSE p

(* getUserInfo is answered: whoever asked, and whenever, the cubit shows it. *)
ProfileArrives(c) ==
  /\ Flying(c)
  /\ cubit' = calls[c].user
  /\ storage' = IF perfil.up THEN [storage EXCEPT !.name = calls[c].user] ELSE storage
  /\ perfil' = Returned(perfil, c, perfil.status)
  /\ calls' = [calls EXCEPT ![c] = NoCall]
  /\ excused' = IF calls[c].current THEN excused ELSE excused \cup {calls[c].user}
  /\ UNCHANGED <<logins, leaving, signIns>>

(* No network, an error of the server, or 15 seconds.                      *)
ProfileFails(c) ==
  /\ Flying(c)
  /\ perfil' = Returned(perfil, c, "error")
  /\ calls' = [calls EXCEPT ![c] = NoCall]
  /\ UNCHANGED <<storage, cubit, logins, leaving, excused, signIns>>

-----------------------------------------------------------------------------
(* Signing in.                                                             *)

(* From the buttons of Perfil, from its email sheet, or from a sheet some  *)
(* other screen opens when it finds no session.  Nobody is faster than the  *)
(* Keychain: not than the reads of the Perfil, nor than a sign-out.         *)
SignIn(f) ==
  /\ perfil.up /\ perfil.step \in {"idle", "wait"} /\ leaving = NotLeaving
  /\ logins[f] = Idle /\ \A g \in Flows : g < f => logins[g] # Idle
  /\ signIns < MaxSignIns /\ signIns' = signIns + 1
  /\ \A g \in Flows : ~logins[g].watched
  /\ \E from \in {"perfil", "email", "elsewhere"} :
       /\ IF from = "elsewhere" THEN storage.userId = NoUser ELSE ShowsGuest
       /\ logins' = [logins EXCEPT ![f] =
            [step |-> "asked", user |-> NoUser, from |-> from, watched |-> TRUE]]
  /\ UNCHANGED <<storage, cubit, calls, perfil, leaving, excused>>

(* The sheet can be closed while it connects; the sign-in goes on.         *)
CloseSheet(f) ==
  /\ logins[f].watched /\ logins[f].from # "perfil" /\ logins[f].step # "leaving"
  /\ logins' = [logins EXCEPT ![f] = Unwatched(@)]
  /\ UNCHANGED <<storage, cubit, calls, perfil, leaving, excused, signIns>>

Refused(f) ==
  /\ logins[f].step = "asked"
  /\ logins' = [logins EXCEPT ![f] = Idle]
  /\ UNCHANGED <<storage, cubit, calls, perfil, leaving, excused, signIns>>

(* The server says who it is, and userId is written; the tokens, which     *)
(* nothing reads, go with it.                                              *)
Granted(f, u) ==
  /\ logins[f].step = "asked"
  /\ storage' = [storage EXCEPT !.userId = u]
  /\ calls' = Outdated(u)
  /\ logins' = [logins EXCEPT ![f].step = "card", ![f].user = u]
  /\ excused' = excused \cup ({storage.userId, cubit} \ {NoUser, u})
  /\ UNCHANGED <<cubit, perfil, leaving, signIns>>

(* The email and the provider are kept, and _opened asks for the profile   *)
(* in the background.                                                      *)
SaveLogin(f) ==
  /\ logins[f].step = "card"
  /\ storage' = [storage EXCEPT !.email = logins[f].user]
  /\ Asked(logins[f].user, FALSE)
  /\ logins' = [logins EXCEPT ![f].step = "opened"]
  /\ UNCHANGED <<cubit, perfil, leaving, excused, signIns>>

(* Perfil loads again after its own sign-ins.                              *)
Reloaded(from) == IF from = "elsewhere" THEN perfil ELSE [perfil EXCEPT !.step = "local"]

(* completeLogin: the account stays, or nobody was there to be asked.      *)
Stay(f) ==
  /\ logins[f].step = "opened"
  /\ perfil' = IF logins[f].watched THEN Reloaded(logins[f].from) ELSE perfil
  /\ logins' = [logins EXCEPT ![f] = Idle]
  /\ UNCHANGED <<storage, cubit, calls, leaving, excused, signIns>>

(* An account to be deleted, whose owner prefers to sign out.              *)
RatherLeave(f) ==
  /\ logins[f].step = "opened" /\ logins[f].watched
  /\ leaving = NotLeaving
  /\ leaving' = [who |-> f, step |-> "userId"]
  /\ logins' = [logins EXCEPT ![f].step = "leaving"]
  /\ UNCHANGED <<storage, cubit, calls, perfil, excused, signIns>>

-----------------------------------------------------------------------------
(* Signing out: logOut of the Perfil, signOut of a sign-in.                *)

ConfirmLogout ==
  /\ ShowsSession /\ Uncovered
  /\ leaving = NotLeaving
  /\ leaving' = [who |-> Perfil, step |-> "userId"]
  /\ UNCHANGED <<storage, cubit, calls, perfil, logins, excused, signIns>>

DeleteUserId ==
  /\ leaving.step = "userId"
  /\ storage' = [storage EXCEPT !.userId = NoUser]
  /\ calls' = Outdated(NoUser)
  /\ leaving' = [leaving EXCEPT !.step = "clear"]
  /\ excused' = excused \cup {logins[f].user : f \in {g \in Flows : Entering(g)}}
  /\ UNCHANGED <<cubit, perfil, logins, signIns>>

(* SessionProfileStore.clear.                                              *)
ClearProfile ==
  /\ leaving.step = "clear"
  /\ storage' = [storage EXCEPT !.email = NoUser, !.name = NoUser]
  /\ leaving' = [leaving EXCEPT !.step = "reset"]
  /\ UNCHANGED <<cubit, calls, perfil, logins, excused, signIns>>

(* UserCubit.reset.                                                        *)
CubitKept  == UNCHANGED cubit
ResetCubit == cubit' = NoUser

(* What awaited a call is no longer mounted when it returns.               *)
StillAwaited == calls
Orphaned     == [c \in Slots |-> [calls[c] EXCEPT !.mine = FALSE]]

(* The Perfil is replaced by a new one; its call in flight and its sign-in *)
(* go on alone.                                                            *)
LogoutEnds ==
  /\ leaving = [who |-> Perfil, step |-> "reset"]
  /\ ResetCubit
  /\ perfil' = NewPerfil
  /\ calls' = Orphaned
  /\ logins' = [f \in Flows |-> Unwatched(logins[f])]
  /\ leaving' = NotLeaving
  /\ UNCHANGED <<storage, excused, signIns>>

SignOutEnds(f) ==
  /\ leaving = [who |-> f, step |-> "reset"]
  /\ ResetCubit
  /\ perfil' = IF logins[f].from = "perfil" THEN Reloaded("perfil") ELSE perfil
  /\ logins' = [logins EXCEPT ![f] = Idle]
  /\ leaving' = NotLeaving
  /\ UNCHANGED <<storage, calls, excused, signIns>>

SignsIn(f) ==
  \/ SignIn(f) \/ CloseSheet(f) \/ Refused(f) \/ \E u \in Users : Granted(f, u)
  \/ SaveLogin(f) \/ Stay(f) \/ RatherLeave(f) \/ SignOutEnds(f)

(* Everything but entering the tabs, which the start-up decides.           *)
SessionNext ==
  \/ ReadLocalId \/ LoadDecides \/ LoadUser \/ RetryProfile
  \/ \E c \in Slots : ProfileArrives(c) \/ ProfileFails(c)
  \/ \E f \in Flows : SignsIn(f)
  \/ ConfirmLogout \/ DeleteUserId \/ ClearProfile \/ LogoutEnds

-----------------------------------------------------------------------------

SessionTypeOK ==
  /\ storage \in [userId : Anyone, email : Anyone, name : Anyone]
  /\ cubit \in Anyone
  /\ calls \in [Slots -> Call]
  /\ \A c \in Slots : calls[c].mine => perfil.step = "wait"
  /\ perfil \in [up : BOOLEAN, status : {"checking", "guest", "loading", "error"},
                 step : {"idle", "local", "none", "some", "ask", "wait"}]
  /\ logins \in [Flows -> [step : {"idle", "asked", "card", "opened", "leaving"},
                           user : Anyone, watched : BOOLEAN,
                           from : {"perfil", "email", "elsewhere"}]]
  /\ leaving \in [who : 0..MaxFlows,
                  step : {"no", "userId", "clear", "reset"}]
  /\ excused \subseteq Users
  /\ signIns \in 0..MaxSignIns

(* What the phone shows and keeps of a user is of the user whose session   *)
(* is stored.  The exceptions, each of which the code lets happen: an      *)
(* answer asked for in an earlier session, a sign-out cut short by the end *)
(* of the process, a sign-in that writes over another's session and a      *)
(* sign-out in the middle of one.                                          *)
OnlyTheSessionsData ==
  AtRest => {cubit, storage.email, storage.name} \ {NoUser, storage.userId} \subseteq excused

(* The Perfil does not stay on its blank page or its skeletons.            *)
PerfilSettles == Waits ~> ~Waits

=============================================================================
